---- MODULE Spec2Model ----
(***************************************************************************)
(* Opulent Horizons MCP gateway: identity resolution, event normalisation  *)
(* (servers/lead_ingest.py, shared/repository.py) and the ElevenLabs       *)
(* webhooks (src/elevenlabs_webhooks.py).                                   *)
(*                                                                         *)
(* Python values: Optional[str] is None (the empty tuple) or Some(s) (a    *)
(* one-element tuple); a uuid4 string is the tuple <<"uuid4", n>> with n   *)
(* drawn from a counter, so two draws never agree.                         *)
(***************************************************************************)
EXTENDS Integers, Sequences, FiniteSets, TLC

VARIABLES
    leads,      \* InMemoryRepository.leads: dict in insertion order, as a sequence
    events,     \* InMemoryRepository.events: dict event_id -> record
    tasks,      \* the tool invocations in flight, one per task slot
    nextUuid,   \* number of uuid4() draws so far
    ncalls,     \* number of tool invocations started so far
    webhookUrl, \* WORKFLOW_WEBHOOK_URL / N8N_WEBHOOK_URL is set
    posts,      \* http_client.post calls made: [event_id, event_type, outcome]
    history,    \* ghost: ingest_id -> how the lead's identity was obtained
    inserted,   \* ghost: number of insert_workflow_event calls that returned
    hook,       \* the ElevenLabs webhook request in flight (SpecWebhook)
    sigcall,    \* the verify_webhook_signature invocation (SpecSignature)
    zoho        \* the ZohoTokenManager and its callers (SpecZoho)

vars == <<leads, events, tasks, nextUuid, ncalls, webhookUrl, posts, history,
          inserted, hook, sigcall, zoho>>

storeVars == <<leads, events, tasks, nextUuid, ncalls, webhookUrl, posts,
               history, inserted>>

utilVars == <<sigcall, zoho>>

(***************************************************************************)
(* Bounds                                                                  *)
(***************************************************************************)
NumTasks == 2
MaxCalls == 2
MaxLeads == 3

Tasks == 1..NumTasks

(***************************************************************************)
(* Python values                                                           *)
(***************************************************************************)
None == <<>>
Some(s) == <<s>>
\* bool(x) for an Optional[str]: None and "" are falsy
Truthy(x) == x # None /\ x # Some("")
Uuid(n) == <<"uuid4", n>>

Emails == {None, Some(""), Some("a@x.com")}
Phones == {None, Some("+1000")}
SourceSystems == {"WEB"}
CallStatuses == {"ringing", "queued", "initiated", "in-progress", "completed",
                 "busy", "no-answer", "canceled", "failed", "unheard-of"}
ElevenLabsEventTypes == {"call.ended", "post_call_transcription",
                         "call.analysis_complete", "agent.call_received",
                         "call.started"}
TriggerEvents == {"BOOKING_CREATED", "BOOKING_RESCHEDULED", "BOOKING_CANCELLED",
                  "BOOKING_CONFIRMED", "MEETING_ENDED", "MEETING_STARTED",
                  "BOOKING_PAID"}
NotionTypes == {None, Some("page.created")}
NotionIds == {None, <<"notion", 1>>}
Challenges == {None, Some("tok"), Some("")}
ConversationIds == {None, Some("conv-1")}

(***************************************************************************)
(* shared/repository.py                                                    *)
(***************************************************************************)
\* variant: the fields are compared without the test that one was supplied
RecordMatchesUnguarded(record, email, phone) ==
    \/ record.lead.person.email = email
    \/ record.lead.person.phone = phone

\* the match of one stored record against the supplied contact fields
RecordMatches(record, email, phone) ==
    \/ Truthy(email) /\ record.lead.person.email = email
    \/ Truthy(phone) /\ record.lead.person.phone = phone

\* variant: the match requires both fields to agree (and in place of or)
find_ohid_conjunctive(ls, email, phone) ==
    LET hits == {i \in 1..Len(ls) :
                    /\ Truthy(email) /\ ls[i].lead.person.email = email
                    /\ Truthy(phone) /\ ls[i].lead.person.phone = phone}
    IN  IF hits = {} THEN None
        ELSE ls[CHOOSE i \in hits : \A j \in hits : i <= j].ohid

\* variant: only the phone is compared, the email is ignored
find_ohid_phone_only(ls, email, phone) ==
    LET hits == {i \in 1..Len(ls) :
                    Truthy(phone) /\ ls[i].lead.person.phone = phone}
    IN  IF hits = {} THEN None
        ELSE ls[CHOOSE i \in hits : \A j \in hits : i <= j].ohid

\* the first record, in insertion order, that matches; None when none does
find_ohid_by_contact(ls, email, phone) ==
    LET hits == {i \in 1..Len(ls) : RecordMatches(ls[i], email, phone)}
    IN  IF hits = {} THEN None
        ELSE ls[CHOOSE i \in hits : \A j \in hits : i <= j].ohid

\* existing if existing else str(uuid4()); fresh is the uuid4 that would be drawn
resolve_ohid(ls, lead, fresh) ==
    LET existing == find_ohid_by_contact(ls, lead.person.email, lead.person.phone)
    IN  IF Truthy(existing) THEN existing ELSE fresh

\* variant: the dict is keyed by the identity, so a second record of one
\* identity takes the place of the first
insert_lead_context_keyed_by_ohid(ls, ohid, ingest_id, lead) ==
    LET rec == [ingest_id |-> ingest_id, ohid |-> ohid, lead |-> lead]
        old == {i \in 1..Len(ls) : ls[i].ohid = ohid}
    IN  IF old = {} THEN Append(ls, rec)
        ELSE [i \in 1..Len(ls) |-> IF i \in old THEN rec ELSE ls[i]]

\* self.leads[ingest_id] = {...}: a new key is appended, an old key keeps its place
insert_lead_context(ls, ohid, ingest_id, lead) ==
    LET rec == [ingest_id |-> ingest_id, ohid |-> ohid, lead |-> lead]
        old == {i \in 1..Len(ls) : ls[i].ingest_id = ingest_id}
    IN  IF old = {} THEN Append(ls, rec)
        ELSE [i \in 1..Len(ls) |-> IF i \in old THEN rec ELSE ls[i]]

\* self.events[event_id] = {...}
insert_workflow_event(es, event_id, ohid, event_type, payload, source_system) ==
    LET rec == [ohid |-> ohid, event_type |-> event_type, payload |-> payload,
                source_system |-> source_system]
    IN  [k \in DOMAIN es \cup {event_id} |-> IF k = event_id THEN rec ELSE es[k]]

(***************************************************************************)
(* servers/lead_ingest.py: event-type mapping                              *)
(***************************************************************************)
\* variant: a call in progress counts as received
twilio_event_type_in_progress(call_status) ==
    IF call_status \in {"ringing", "queued", "initiated", "in-progress"}
    THEN "CallReceived" ELSE "CallCompleted"

twilio_event_type(call_status) ==
    IF call_status \in {"ringing", "queued", "initiated"}
    THEN "CallReceived" ELSE "CallCompleted"

\* variant: only call.ended completes a call
elevenlabs_event_type_ended_only(event_type) ==
    IF event_type = "call.ended" THEN "ElevenLabsCallCompleted" ELSE "ElevenLabsEvent"

elevenlabs_event_type(event_type) ==
    IF event_type \in {"call.ended", "post_call_transcription", "call.analysis_complete"}
    THEN "ElevenLabsCallCompleted" ELSE "ElevenLabsEvent"

\* variant: the two meeting triggers share one type
calcom_event_type_meetings_merged(trigger_event) ==
    CASE trigger_event = "BOOKING_CREATED"     -> "CalcomBookingCreated"
      [] trigger_event = "BOOKING_RESCHEDULED" -> "CalcomBookingRescheduled"
      [] trigger_event = "BOOKING_CANCELLED"   -> "CalcomBookingCancelled"
      [] trigger_event = "BOOKING_CONFIRMED"   -> "CalcomBookingConfirmed"
      [] trigger_event = "MEETING_ENDED"       -> "CalcomMeetingEnded"
      [] trigger_event = "MEETING_STARTED"     -> "CalcomMeetingEnded"
      [] OTHER                                 -> "CalcomEvent"

calcom_event_type(trigger_event) ==
    CASE trigger_event = "BOOKING_CREATED"     -> "CalcomBookingCreated"
      [] trigger_event = "BOOKING_RESCHEDULED" -> "CalcomBookingRescheduled"
      [] trigger_event = "BOOKING_CANCELLED"   -> "CalcomBookingCancelled"
      [] trigger_event = "BOOKING_CONFIRMED"   -> "CalcomBookingConfirmed"
      [] trigger_event = "MEETING_ENDED"       -> "CalcomMeetingEnded"
      [] trigger_event = "MEETING_STARTED"     -> "CalcomMeetingStarted"
      [] OTHER                                 -> "CalcomEvent"

(***************************************************************************)
(* servers/lead_ingest.py: the tools, one step per await                   *)
(***************************************************************************)
NoResult == [status |-> "none", ohid |-> None, event_id |-> None,
             event_type |-> "", challenge |-> None, conversation_id |-> None]

IdleTask == [pc |-> "idle", tool |-> "none", source_system |-> "",
             email |-> None, phone |-> None, native |-> None,
             payload_id |-> None, challenge |-> None, conversation_id |-> None,
             ohid |-> None, event_id |-> None,
             event_type |-> "", pub |-> "none", result |-> NoResult]

\* the LeadIngestRequest a task's arguments build (contact fields and source)
LeadOf(task) == [source_system |-> task.source_system,
                 person |-> [email |-> task.email, phone |-> task.phone]]

\* the event dict a tool builds; a key the tool's dict lacks is None here
EventPayload(task) ==
    [event_type    |-> task.event_type,
     event_subtype |-> IF task.tool \in {"process_notion_event",
                                         "process_elevenlabs_event",
                                         "process_calcom_event"}
                       THEN task.native ELSE None,
     call_status   |-> IF task.tool = "process_twilio_event"
                       THEN task.native ELSE None,
     conversation_id |-> task.conversation_id,
     event_id      |-> task.event_id,
     ohid          |-> task.ohid]

StoreCallPcs == {"resolve_ohid", "insert_lead_context", "insert_workflow_event",
                 "find_ohid_by_contact"}

CanStart(t) == tasks[t].pc = "idle" /\ ncalls < MaxCalls

\* ingest_lead, up to its first await (resolve_ohid)
ingest_lead_start(t) ==
    /\ tasks[t].pc = "idle"
    /\ \E s \in SourceSystems, e \in Emails, p \in Phones :
         tasks' = [tasks EXCEPT ![t] =
                     [IdleTask EXCEPT !.pc = "resolve_ohid", !.tool = "ingest_lead",
                                      !.source_system = s, !.email = e, !.phone = p,
                                      !.event_type = "LeadIngested"]]
    /\ ncalls' = ncalls + 1
    /\ UNCHANGED <<leads, events, nextUuid, webhookUrl, posts, history, inserted, hook, utilVars>>

\* a call of ingest_lead that may overlap with other tool calls
ingest_lead(t) == CanStart(t) /\ ingest_lead_start(t)

\* a call of ingest_lead made while no other call is under way
ingest_lead_in_turn(t) ==
    /\ \A u \in Tasks : tasks[u].pc = "idle"
    /\ ncalls < MaxLeads
    /\ ingest_lead_start(t)

\* ohid = await resolve_ohid(app.repo, lead); ingest_id = str(uuid4())
ingest_resolve(t) ==
    /\ tasks[t].pc = "resolve_ohid"
    /\ LET lead  == LeadOf(tasks[t])
           miss  == ~Truthy(find_ohid_by_contact(leads, lead.person.email,
                                                  lead.person.phone))
           ohid  == resolve_ohid(leads, lead, Uuid(nextUuid + 1))
           drawn == IF miss THEN nextUuid + 1 ELSE nextUuid
           ingest_id == Uuid(drawn + 1)
       IN  /\ tasks' = [tasks EXCEPT ![t].pc = "insert_lead_context",
                                     ![t].ohid = ohid, ![t].event_id = ingest_id]
           /\ nextUuid' = drawn + 1
           /\ history' = [k \in DOMAIN history \cup {ingest_id} |->
                            IF k = ingest_id
                            THEN [miss |-> miss, seen |-> Len(leads)]
                            ELSE history[k]]
    /\ UNCHANGED <<leads, events, ncalls, webhookUrl, posts, inserted, hook, utilVars>>

\* await app.repo.insert_lead_context(ohid, ingest_id, lead)
ingest_insert_lead(t) ==
    /\ tasks[t].pc = "insert_lead_context"
    /\ leads' = insert_lead_context(leads, tasks[t].ohid, tasks[t].event_id,
                                    LeadOf(tasks[t]))
    /\ tasks' = [tasks EXCEPT ![t].pc = "insert_workflow_event"]
    /\ UNCHANGED <<events, nextUuid, ncalls, webhookUrl, posts, history, inserted, hook, utilVars>>

\* process_twilio_event, up to its first await
process_twilio_event(t) ==
    /\ CanStart(t)
    /\ \E call_status \in CallStatuses :
         tasks' = [tasks EXCEPT ![t] =
                     [IdleTask EXCEPT !.pc = "insert_workflow_event",
                                      !.tool = "process_twilio_event",
                                      !.source_system = "TWILIO",
                                      !.native = Some(call_status),
                                      !.event_id = Uuid(nextUuid + 1),
                                      !.event_type = twilio_event_type(call_status)]]
    /\ nextUuid' = nextUuid + 1
    /\ ncalls' = ncalls + 1
    /\ UNCHANGED <<leads, events, webhookUrl, posts, history, inserted, hook, utilVars>>

\* variant: the challenge is not looked at; every payload is normalised and stored
process_notion_event_stored(t) ==
    /\ CanStart(t)
    /\ \E challenge \in Challenges, type \in NotionTypes, id \in NotionIds :
         /\ tasks' = [tasks EXCEPT ![t] =
                        [IdleTask EXCEPT !.pc = "insert_workflow_event",
                                         !.tool = "process_notion_event",
                                         !.source_system = "NOTION",
                                         !.challenge = challenge,
                                         !.native = IF type = None
                                                    THEN Some("notion.event")
                                                    ELSE type,
                                         !.payload_id = id,
                                         !.event_id = IF id = None
                                                      THEN Uuid(nextUuid + 1)
                                                      ELSE id,
                                         !.event_type = "NotionEvent"]]
         /\ nextUuid' = nextUuid + 1
    /\ ncalls' = ncalls + 1
    /\ UNCHANGED <<leads, events, webhookUrl, posts, history, inserted, hook, utilVars>>

\* variant: the event id is always a fresh uuid4, the payload's "id" is ignored
process_notion_event_fresh_id(t) ==
    /\ CanStart(t)
    /\ \E challenge \in Challenges, type \in NotionTypes, id \in NotionIds :
         IF challenge # None
         THEN /\ tasks' = [tasks EXCEPT ![t] =
                             [IdleTask EXCEPT !.pc = "done",
                                              !.tool = "process_notion_event",
                                              !.challenge = challenge,
                                              !.result = [NoResult EXCEPT
                                                            !.status = "challenge",
                                                            !.challenge = challenge]]]
              /\ nextUuid' = nextUuid
         ELSE /\ tasks' = [tasks EXCEPT ![t] =
                             [IdleTask EXCEPT !.pc = "insert_workflow_event",
                                              !.tool = "process_notion_event",
                                              !.source_system = "NOTION",
                                              !.native = IF type = None
                                                         THEN Some("notion.event")
                                                         ELSE type,
                                              !.payload_id = id,
                                              !.event_id = Uuid(nextUuid + 1),
                                              !.event_type = "NotionEvent"]]
              /\ nextUuid' = nextUuid + 1
    /\ ncalls' = ncalls + 1
    /\ UNCHANGED <<leads, events, webhookUrl, posts, history, inserted, hook, utilVars>>

\* process_notion_event, up to its first await or its challenge return
process_notion_event(t) ==
    /\ CanStart(t)
    /\ \E challenge \in Challenges, type \in NotionTypes, id \in NotionIds :
         IF challenge # None
         THEN /\ tasks' = [tasks EXCEPT ![t] =
                             [IdleTask EXCEPT !.pc = "done",
                                              !.tool = "process_notion_event",
                                              !.challenge = challenge,
                                              !.result = [NoResult EXCEPT
                                                            !.status = "challenge",
                                                            !.challenge = challenge]]]
              /\ nextUuid' = nextUuid
         ELSE /\ tasks' = [tasks EXCEPT ![t] =
                             [IdleTask EXCEPT !.pc = "insert_workflow_event",
                                              !.tool = "process_notion_event",
                                              !.source_system = "NOTION",
                                              !.native = IF type = None
                                                         THEN Some("notion.event")
                                                         ELSE type,
                                              !.payload_id = id,
                                              !.event_id = IF id = None
                                                           THEN Uuid(nextUuid + 1)
                                                           ELSE id,
                                              !.event_type = "NotionEvent"]]
              \* payload.get("id", str(uuid4())) draws the uuid either way
              /\ nextUuid' = nextUuid + 1
    /\ ncalls' = ncalls + 1
    /\ UNCHANGED <<leads, events, webhookUrl, posts, history, inserted, hook, utilVars>>

\* process_elevenlabs_event, up to its first await
process_elevenlabs_event(t) ==
    /\ CanStart(t)
    /\ \E event_type \in ElevenLabsEventTypes, conversation_id \in ConversationIds :
         tasks' = [tasks EXCEPT ![t] =
                     [IdleTask EXCEPT !.pc = "insert_workflow_event",
                                      !.tool = "process_elevenlabs_event",
                                      !.source_system = "ELEVENLABS",
                                      !.native = Some(event_type),
                                      !.conversation_id = conversation_id,
                                      !.event_id = Uuid(nextUuid + 1),
                                      !.event_type = elevenlabs_event_type(event_type)]]
    /\ nextUuid' = nextUuid + 1
    /\ ncalls' = ncalls + 1
    /\ UNCHANGED <<leads, events, webhookUrl, posts, history, inserted, hook, utilVars>>

\* process_calcom_event, up to its first await
process_calcom_event(t) ==
    /\ CanStart(t)
    /\ \E trigger_event \in TriggerEvents, e \in Emails, p \in Phones :
         tasks' = [tasks EXCEPT ![t] =
                     [IdleTask EXCEPT !.pc = IF Truthy(e) \/ Truthy(p)
                                             THEN "find_ohid_by_contact"
                                             ELSE "insert_workflow_event",
                                      !.tool = "process_calcom_event",
                                      !.source_system = "CALCOM",
                                      !.native = Some(trigger_event),
                                      !.email = e, !.phone = p,
                                      !.event_id = Uuid(nextUuid + 1),
                                      !.event_type = calcom_event_type(trigger_event)]]
    /\ nextUuid' = nextUuid + 1
    /\ ncalls' = ncalls + 1
    /\ UNCHANGED <<leads, events, webhookUrl, posts, history, inserted, hook, utilVars>>

\* variant: an attendee nobody has ingested is given a new identity, as
\* resolve_ohid would
calcom_find_minting(t) ==
    /\ tasks[t].pc = "find_ohid_by_contact"
    /\ tasks' = [tasks EXCEPT ![t].pc = "insert_workflow_event",
                              ![t].ohid = resolve_ohid(leads, LeadOf(tasks[t]),
                                                       Uuid(nextUuid + 1))]
    /\ nextUuid' = nextUuid + 1
    /\ UNCHANGED <<leads, events, ncalls, webhookUrl, posts, history,
                   inserted, hook, utilVars>>

\* variant: the store is not read, the booking stays without an identity
calcom_find_skipped(t) ==
    /\ tasks[t].pc = "find_ohid_by_contact"
    /\ tasks' = [tasks EXCEPT ![t].pc = "insert_workflow_event", ![t].ohid = None]
    /\ UNCHANGED <<leads, events, nextUuid, ncalls, webhookUrl, posts, history,
                   inserted, hook, utilVars>>

\* ohid = await app.repo.find_ohid_by_contact(attendee_email, attendee_phone)
calcom_find(t) ==
    /\ tasks[t].pc = "find_ohid_by_contact"
    /\ tasks' = [tasks EXCEPT ![t].pc = "insert_workflow_event",
                              ![t].ohid = find_ohid_by_contact(leads, tasks[t].email,
                                                               tasks[t].phone)]
    /\ UNCHANGED <<leads, events, nextUuid, ncalls, webhookUrl, posts, history,
                   inserted, hook, utilVars>>

\* await app.repo.insert_workflow_event(...), in every event-emitting tool
tool_insert_event(t) ==
    /\ tasks[t].pc = "insert_workflow_event"
    /\ events' = insert_workflow_event(events, tasks[t].event_id, tasks[t].ohid,
                                       tasks[t].event_type, EventPayload(tasks[t]),
                                       tasks[t].source_system)
    /\ inserted' = inserted + 1
    /\ tasks' = [tasks EXCEPT ![t].pc = "publish_event"]
    /\ UNCHANGED <<leads, nextUuid, ncalls, webhookUrl, posts, history, hook, utilVars>>

\* variant: the failure of a repository call is swallowed and the tool goes on
\* to its return statement
store_failure_swallowed(t) ==
    /\ tasks[t].pc \in StoreCallPcs
    /\ tasks' = [tasks EXCEPT ![t].pc = "return"]
    /\ UNCHANGED <<leads, events, nextUuid, ncalls, webhookUrl, posts, history,
                   inserted, hook, utilVars>>

\* an awaited repository call raises (PostgresRepository: connection, SQL error);
\* no tool catches it, so the invocation ends with the error
store_raises(t) ==
    /\ tasks[t].pc \in StoreCallPcs
    /\ tasks' = [tasks EXCEPT ![t].pc = "raised",
                              ![t].result = [NoResult EXCEPT !.status = "error"]]
    /\ UNCHANGED <<leads, events, nextUuid, ncalls, webhookUrl, posts, history,
                   inserted, hook, utilVars>>

\* what http_client.post does in _publish_event: it succeeds; it raises an
\* httpx.HTTPError; or it raises something else: httpx.InvalidURL for a
\* malformed url and ValueError for a payload json cannot encode (NaN, inf),
\* both before anything is sent, RuntimeError from the transport
PublishOutcomes == {"ok", "HTTPError", "InvalidURL", "ValueError", "RuntimeError"}

\* await _publish_event(app, event_type, event): only httpx.HTTPError is
\* caught, any other exception ends the tool
publish_event(t) ==
    /\ tasks[t].pc = "publish_event"
    /\ IF ~webhookUrl
       THEN /\ tasks' = [tasks EXCEPT ![t].pc = "return", ![t].pub = "skipped"]
            /\ posts' = posts
       ELSE \E outcome \in PublishOutcomes :
              /\ tasks' = IF outcome \in {"ok", "HTTPError"}
                          THEN [tasks EXCEPT ![t].pc = "return", ![t].pub = outcome]
                          ELSE [tasks EXCEPT ![t].pc = "raised", ![t].pub = outcome,
                                             ![t].result =
                                                 [NoResult EXCEPT !.status = "error"]]
              \* InvalidURL and ValueError come before anything is sent
              /\ posts' = IF outcome \in {"ok", "HTTPError", "RuntimeError"}
                          THEN posts \cup {[event_id |-> tasks[t].event_id,
                                            event_type |-> tasks[t].event_type,
                                            outcome |-> outcome]}
                          ELSE posts
    /\ UNCHANGED <<leads, events, nextUuid, ncalls, webhookUrl, history, inserted, hook, utilVars>>

\* the dict a tool returns after its publish
ToolResult(task) ==
    [status     |-> IF task.tool = "ingest_lead" THEN "ingested" ELSE "accepted",
     ohid       |-> IF task.tool \in {"ingest_lead", "process_calcom_event"}
                    THEN task.ohid ELSE None,
     event_id   |-> task.event_id,
     event_type |-> IF task.tool \in {"ingest_lead", "process_notion_event"}
                    THEN "" ELSE task.event_type,
     challenge  |-> None,
     conversation_id |-> task.conversation_id]

\* await ctx.info(...) and the return statement
tool_return(t) ==
    /\ tasks[t].pc = "return"
    /\ tasks' = [tasks EXCEPT ![t].pc = "done", ![t].result = ToolResult(tasks[t])]
    /\ UNCHANGED <<leads, events, nextUuid, ncalls, webhookUrl, posts, history,
                   inserted, hook, utilVars>>

\* the invocation's result (or error) has gone back to the MCP client
task_done(t) ==
    /\ tasks[t].pc \in {"done", "raised"}
    /\ tasks' = [tasks EXCEPT ![t] = IdleTask]
    /\ UNCHANGED <<leads, events, nextUuid, ncalls, webhookUrl, posts, history,
                   inserted, hook, utilVars>>

(***************************************************************************)
(* src/elevenlabs_webhooks.py: JSON / Python values                        *)
(*                                                                         *)
(* A JSON value is [k, s, n]: k its type, s its text when a string, n its  *)
(* number when an int or a bool. A key that is absent from a dict is not   *)
(* in the DOMAIN of the function that models the dict.                     *)
(***************************************************************************)
JNull == [k |-> "null", s |-> "", n |-> 0]
JStr(x) == [k |-> "str", s |-> x, n |-> 0]
JInt(i) == [k |-> "int", s |-> "", n |-> i]
JBool(b) == [k |-> "bool", s |-> "", n |-> IF b THEN 1 ELSE 0]

\* bool(v)
PyTruthy(v) ==
    CASE v.k = "null" -> FALSE
      [] v.k = "str"  -> v.s # ""
      [] OTHER        -> v.n # 0

\* v or d
PyOr(v, d) == IF PyTruthy(v) THEN v ELSE d

\* str(v)
PyStr(v) ==
    CASE v.k = "null" -> "None"
      [] v.k = "str"  -> v.s
      [] v.k = "bool" -> IF v.n = 1 THEN "True" ELSE "False"
      [] OTHER        -> ToString(v.n)

\* d.get(key, default)
Get(d, key, default) == IF key \in DOMAIN d THEN d[key] ELSE default

(***************************************************************************)
(* DynamicVariables and map_lead_to_variables                              *)
(***************************************************************************)
VarNames == {"first_name", "last_name", "lead_status", "qualification_score",
             "property_type", "source", "previous_contact", "last_interaction",
             "notes", "ohid", "budget_range", "investment_timeline",
             "preferred_location", "nationality", "occupation", "phone"}

\* DynamicVariables(): the field defaults
DefaultVariables ==
    [first_name |-> JStr("there"), last_name |-> JStr(""),
     lead_status |-> JStr("new"), qualification_score |-> JStr("0"),
     property_type |-> JStr("not specified"), source |-> JStr("phone"),
     previous_contact |-> JStr("no"), last_interaction |-> JStr("first contact"),
     notes |-> JStr(""), ohid |-> JStr(""),
     budget_range |-> JStr("not discussed"),
     investment_timeline |-> JStr("not discussed"),
     preferred_location |-> JStr("Dubai"), nationality |-> JStr(""),
     occupation |-> JStr(""), phone |-> JStr("")]

\* variant: the model is built without validation (model_construct), so a value
\* that is not a string is kept
DynamicVariablesUnvalidated(kwargs) == [err |-> "", vars |-> kwargs]

\* DynamicVariables(**kwargs): pydantic accepts only str for a str field
DynamicVariables(kwargs) ==
    IF \A name \in VarNames : kwargs[name].k = "str"
    THEN [err |-> "", vars |-> kwargs]
    ELSE [err |-> "ValidationError", vars |-> DefaultVariables]

has_previous(lead) ==
    /\ Get(lead, "Lead_Status", JStr("new")) \notin {JStr("new"), JStr("New"), JStr("")}
    /\ Get(lead, "Lead_Status", JNull) # JNull

map_lead_to_variables(lead, phone) ==
    DynamicVariables(
      [first_name |-> PyOr(Get(lead, "First_Name", JNull), JStr("there")),
       last_name |-> PyOr(Get(lead, "Last_Name", JNull), JStr("")),
       lead_status |-> PyOr(Get(lead, "Lead_Status", JNull), JStr("new")),
       qualification_score |-> JStr(PyStr(Get(lead, "qualification_score", JInt(0)))),
       property_type |-> PyOr(Get(lead, "Lead_Type", JNull), JStr("not specified")),
       source |-> PyOr(Get(lead, "Lead_Source", JNull),
                       PyOr(Get(lead, "Campaign", JNull), JStr("phone"))),
       previous_contact |-> IF has_previous(lead) THEN JStr("yes") ELSE JStr("no"),
       last_interaction |-> PyOr(Get(lead, "call_timestamp", JNull),
                                 PyOr(Get(lead, "Modified_Time", JNull),
                                      JStr("first contact"))),
       notes |-> PyOr(Get(lead, "call_summary", JNull),
                      PyOr(Get(lead, "Description", JNull), JStr(""))),
       ohid |-> PyOr(Get(lead, "DistributionID", JNull),
                     JStr(PyStr(Get(lead, "Record_Id", JStr(""))))),
       budget_range |-> PyOr(Get(lead, "Budget_Range", JNull), JStr("not discussed")),
       investment_timeline |-> PyOr(Get(lead, "Investment_Timeline", JNull),
                                    JStr("not discussed")),
       preferred_location |-> PyOr(Get(lead, "Preferred_Location", JNull),
                                   JStr("Dubai")),
       nationality |-> PyOr(Get(lead, "Nationality", JNull), JStr("")),
       occupation |-> PyOr(Get(lead, "Occupation", JNull), JStr("")),
       phone |-> phone])

(***************************************************************************)
(* int(raw_score): the raw qualification_score                             *)
(*                                                                         *)
(* A raw score is [k, cs, n, d]: a string carries its characters cs, an    *)
(* int or bool its value n, a finite float the fraction n / d; "inf" and   *)
(* "nan" are what json.loads gives for 1e999 / Infinity and NaN.           *)
(***************************************************************************)
SNull == [k |-> "null", cs |-> <<>>, n |-> 0, d |-> 1]
SAbsent == [k |-> "absent", cs |-> <<>>, n |-> 0, d |-> 1]
SStr(chars) == [k |-> "str", cs |-> chars, n |-> 0, d |-> 1]
SInt(i) == [k |-> "int", cs |-> <<>>, n |-> i, d |-> 1]
SBool(b) == [k |-> "bool", cs |-> <<>>, n |-> IF b THEN 1 ELSE 0, d |-> 1]
SFloat(num, den) == [k |-> "float", cs |-> <<>>, n |-> num, d |-> den]
SInf == [k |-> "inf", cs |-> <<>>, n |-> 0, d |-> 1]
SNan == [k |-> "nan", cs |-> <<>>, n |-> 0, d |-> 1]
SList == [k |-> "list", cs |-> <<>>, n |-> 0, d |-> 1]
SDict == [k |-> "dict", cs |-> <<>>, n |-> 0, d |-> 1]

DigitChars == <<"0", "1", "2", "3", "4", "5", "6", "7", "8", "9">>
IsDigit(c) == \E i \in 1..Len(DigitChars) : DigitChars[i] = c
DigitVal(c) == (CHOOSE i \in 1..Len(DigitChars) : DigitChars[i] = c) - 1
\* the characters int() strips from both ends of a str: space, tab, newline,
\* carriage return, form feed, vertical tab (U+000B), next line (U+0085) and
\* no-break space (U+00A0); the Unicode spaces from U+1680 on are stripped
\* too and cannot be written in a string of this module
IsSpace(c) == c \in {" ", "\t", "\n", "\r", "\f", "", "", " "}

RECURSIVE LStrip(_)
LStrip(cs) == IF cs # <<>> /\ IsSpace(Head(cs)) THEN LStrip(Tail(cs)) ELSE cs

RECURSIVE RStrip(_)
RStrip(cs) ==
    IF cs # <<>> /\ IsSpace(cs[Len(cs)]) THEN RStrip(SubSeq(cs, 1, Len(cs) - 1)) ELSE cs

\* digits, with single underscores allowed between digits only
IsDigitString(cs) ==
    /\ cs # <<>>
    /\ IsDigit(cs[1]) /\ IsDigit(cs[Len(cs)])
    /\ \A i \in 1..Len(cs) : IsDigit(cs[i]) \/ cs[i] = "_"
    /\ \A i \in 1..(Len(cs) - 1) : ~(cs[i] = "_" /\ cs[i + 1] = "_")

RECURSIVE DigitsValue(_, _)
DigitsValue(cs, acc) ==
    IF cs = <<>> THEN acc
    ELSE IF Head(cs) = "_" THEN DigitsValue(Tail(cs), acc)
    ELSE DigitsValue(Tail(cs), 10 * acc + DigitVal(Head(cs)))

\* int(s) for a str: whitespace stripped, an optional sign, then the digits
ParseInt(chars) ==
    LET cs     == RStrip(LStrip(chars))
        signed == cs # <<>> /\ Head(cs) \in {"+", "-"}
        body   == IF signed THEN Tail(cs) ELSE cs
    IN  IF IsDigitString(body)
        THEN [err |-> "", n |-> IF signed /\ Head(cs) = "-"
                                THEN 0 - DigitsValue(body, 0)
                                ELSE DigitsValue(body, 0)]
        ELSE [err |-> "ValueError", n |-> 0]

\* int(v): truncation toward zero for a float
PyInt(v) ==
    CASE v.k = "str"   -> ParseInt(v.cs)
      [] v.k \in {"int", "bool"} -> [err |-> "", n |-> v.n]
      [] v.k = "float" -> [err |-> "", n |-> IF v.n >= 0 THEN v.n \div v.d
                                             ELSE 0 - ((0 - v.n) \div v.d)]
      [] v.k = "inf"   -> [err |-> "OverflowError", n |-> 0]
      [] v.k = "nan"   -> [err |-> "ValueError", n |-> 0]
      [] OTHER         -> [err |-> "TypeError", n |-> 0]

\* qualification_score: 0 unless raw_score is not None and int() succeeds;
\* only ValueError and TypeError are caught
ExtractScore(raw_score) ==
    IF raw_score.k \in {"null", "absent"} THEN [err |-> "", n |-> 0]
    ELSE LET r == PyInt(raw_score)
         IN  IF r.err \in {"ValueError", "TypeError"} THEN [err |-> "", n |-> 0]
             ELSE r

(***************************************************************************)
(* verify_elevenlabs_signature                                             *)
(*                                                                         *)
(* A header value is [present, text]; a text is a tuple: <<>> is "", and   *)
(* hmac.new(...).hexdigest() is <<"hmac-sha256", key, msg>>, equal for     *)
(* equal key and message only.                                             *)
(***************************************************************************)
NoHeader == [present |-> FALSE, text |-> <<>>]
Header(text) == [present |-> TRUE, text |-> text]
Text(x) == <<"text", x>>
HexDigest(key, msg) == <<"hmac-sha256", key, msg>>
\* a str with a character outside ASCII
NonAsciiText == <<"text-non-ascii">>

\* bool(signature) for the Optional[str] header
HeaderTruthy(h) == h.present /\ h.text # <<>>

\* hmac.compare_digest(a, b) on two str: TypeError when one is not ASCII
compare_digest(a, b) ==
    IF a = NonAsciiText \/ b = NonAsciiText THEN [err |-> "TypeError", eq |-> FALSE]
    ELSE [err |-> "", eq |-> (a = b)]

verify_elevenlabs_signature(raw_body, signature, secret) ==
    IF ~Truthy(secret) THEN [err |-> "", ok |-> TRUE]
    ELSE IF ~HeaderTruthy(signature) THEN [err |-> "", ok |-> FALSE]
    ELSE LET expected == HexDigest(secret[1], raw_body)
             r == compare_digest(signature.text, expected)
         IN  [err |-> r.err, ok |-> r.eq]

(***************************************************************************)
(* servers/lead_ingest.py: verify_webhook_signature                        *)
(*                                                                         *)
(* body_hex is [ok, bytes]: ok is FALSE for a string bytes.fromhex         *)
(* rejects. A signature is [prefixed, text]: prefixed when the string      *)
(* starts with "sha256=", text what follows the prefix (the whole string   *)
(* when there is none). The environment maps each source to its secret,    *)
(* "" when the variable is unset or empty (os.getenv(name, "")).           *)
(***************************************************************************)
SignatureSources == {"twilio", "notion", "elevenlabs", "calcom"}
Sources == SignatureSources \cup {"unknown_system"}

HexOf(bytes) == [ok |-> TRUE, bytes |-> bytes]
InvalidHex == [ok |-> FALSE, bytes |-> ""]

Plain(text) == [prefixed |-> FALSE, text |-> text]
Sha256Prefixed(text) == [prefixed |-> TRUE, text |-> text]

\* the signature string as a whole
WholeText(signature) ==
    IF signature.text = NonAsciiText THEN NonAsciiText
    ELSE IF signature.prefixed THEN <<"sha256=", signature.text, "">>
    ELSE signature.text

\* signature.split("=", 1)[1] if signature.startswith("sha256=") else signature
StripSha256(signature) ==
    IF signature.prefixed THEN signature.text ELSE WholeText(signature)

NoSigResult == [err |-> "", valid |-> FALSE, source |-> "", error |-> ""]

verify_webhook_signature(body_hex, signature, source, env) ==
    IF ~body_hex.ok THEN [NoSigResult EXCEPT !.err = "ValueError"]
    ELSE IF source \notin SignatureSources
    THEN [NoSigResult EXCEPT !.error = "Unknown source"]
    ELSE LET digest == HexDigest(env[source], body_hex.bytes)
             sig == IF source = "notion" THEN StripSha256(signature)
                    ELSE WholeText(signature)
             r == compare_digest(digest, sig)
         IN  IF r.err # "" THEN [NoSigResult EXCEPT !.err = r.err]
             ELSE [NoSigResult EXCEPT !.valid = r.eq, !.source = source]

\* inputs of the tool
SignedBodies == {"", "test body"}
BodyHexes == {HexOf(b) : b \in SignedBodies} \cup {InvalidHex}
EnvSecrets == {"", "real-secret"}
Environments == [SignatureSources -> EnvSecrets]

SignatureTexts ==
    {<<>>, Text("anything"), NonAsciiText}
    \cup {HexDigest(k, b) : k \in EnvSecrets \cup {"guess"}, b \in SignedBodies}

SignatureStrings ==
    {Plain(t) : t \in SignatureTexts}
    \cup {Sha256Prefixed(t) : t \in SignatureTexts \ {NonAsciiText}}

IdleSigCall(env) ==
    [pc |-> "idle", env |-> env, body_hex |-> InvalidHex,
     signature |-> Plain(<<>>), source |-> "", result |-> NoSigResult]

NoSigCall == [pc |-> "none"]

\* one call of the tool: it returns its dict or raises
verify_signature_call ==
    /\ sigcall.pc = "idle"
    /\ \E body_hex \in BodyHexes, signature \in SignatureStrings, source \in Sources :
         LET result == verify_webhook_signature(body_hex, signature, source,
                                                sigcall.env)
         IN  sigcall' = [sigcall EXCEPT
                           !.pc = IF result.err = "" THEN "returned" ELSE "raised",
                           !.body_hex = body_hex, !.signature = signature,
                           !.source = source, !.result = result]
    /\ UNCHANGED <<storeVars, hook, zoho>>

\* the result has gone back to the caller
verify_signature_done ==
    /\ sigcall.pc \in {"returned", "raised"}
    /\ sigcall' = IdleSigCall(sigcall.env)
    /\ UNCHANGED <<storeVars, hook, zoho>>

(***************************************************************************)
(* shared/zoho_auth.py: ZohoTokenManager                                   *)
(*                                                                         *)
(* A token is a number: 0 is the empty string, 1 the static token of       *)
(* ZOHO_ACCESS_TOKEN, 1 + k the token of the k-th successful refresh.      *)
(* Times are seconds; expires_at = 0 is the 0.0 of an unknown expiry.      *)
(* asyncio.Lock is locked plus its FIFO queue of waiters. A call takes     *)
(* seconds (the post has a 15 s timeout), so the clock moves, in steps of  *)
(* TickSeconds, only between calls.                                        *)
(***************************************************************************)
NumCallers == 3
MaxTokenCalls == 3
MaxTicks == 1

Callers == 1..NumCallers

RefreshBufferSeconds == 300
DefaultExpiresIn == 3600
TickSeconds == 12 * RefreshBufferSeconds

\* what one refresh post gives: the post raises httpx.HTTPError; the status is
\* not 200; resp.json() raises; or the JSON object read, in which
\* access_token is absent, the empty string or a fresh token
\* expires_in, as data.get("expires_in", 3600) reads it: the key is absent,
\* holds a number of seconds (the usual hour, the buffer itself, a minute), or
\* holds something time.time() cannot be added to (the str "3600", null)
RefreshResponses ==
    {[kind |-> "json", access_token |-> "fresh", expires_in |-> e] :
        e \in {[k |-> "absent", n |-> 0], [k |-> "str", n |-> DefaultExpiresIn],
               [k |-> "null", n |-> 0]}
              \cup {[k |-> "int", n |-> n] :
                       n \in {DefaultExpiresIn, RefreshBufferSeconds,
                              RefreshBufferSeconds \div 5}}}
    \cup {[kind |-> "json", access_token |-> "empty",
            expires_in |-> [k |-> "int", n |-> DefaultExpiresIn]],
          [kind |-> "json", access_token |-> "absent",
            expires_in |-> [k |-> "absent", n |-> 0]]}
    \cup {[kind |-> k, access_token |-> "absent",
            expires_in |-> [k |-> "absent", n |-> 0]] :
            k \in {"status_not_200", "JSONDecodeError", "HTTPError"}}

NoRefresh == [ok |-> FALSE, token |-> 0, expires_in |-> 0]

IdleCaller == [pc |-> "idle", waited |-> FALSE, refreshes |-> 0,
               handed |-> NoRefresh, result |-> 0]

NoManager == [pc |-> "none"]

\* ZohoTokenManager.from_env()
ZohoTokenManager(has_oauth_credentials, access_token) ==
    [has_oauth_credentials |-> has_oauth_credentials,
     access_token |-> access_token, expires_at |-> 0,
     locked |-> FALSE, waiters |-> <<>>,
     now |-> TickSeconds, ticks |-> 0, ncalls |-> 0, issued |-> 0,
     last_refresh |-> NoRefresh,
     callers |-> [c \in Callers |-> IdleCaller]]

token_is_valid(z) ==
    IF z.access_token = 0 THEN FALSE
    ELSE IF z.expires_at = 0 THEN TRUE
    ELSE z.now < z.expires_at - RefreshBufferSeconds

\* the lock is taken and the refresh post is sent
StartRefresh(z, c) ==
    [z EXCEPT !.locked = TRUE, !.callers[c].pc = "posting",
              !.callers[c].refreshes = @ + 1]

Return(z, c) ==
    [z EXCEPT !.callers[c].pc = "done", !.callers[c].result = z.access_token]

\* get_access_token up to its first suspension: the fast paths, the lock
\* taken at once when it is free and nobody waits, or the wait for it
zoho_get_access_token(c) ==
    /\ zoho.callers[c].pc = "idle"
    /\ zoho.ncalls < MaxTokenCalls
    /\ LET z == [zoho EXCEPT !.ncalls = @ + 1] IN
       IF token_is_valid(z) \/ ~z.has_oauth_credentials
       THEN zoho' = Return(z, c)
       ELSE IF ~z.locked /\ z.waiters = <<>>
       THEN zoho' = StartRefresh(z, c)
       ELSE zoho' = [z EXCEPT !.callers[c].pc = "waiting",
                              !.callers[c].waited = TRUE,
                              !.waiters = Append(@, c)]
    /\ UNCHANGED <<storeVars, hook, sigcall>>

\* variant: no second check once the lock is held, the caller always refreshes
zoho_lock_acquired_no_recheck(c) ==
    /\ zoho.callers[c].pc = "waiting"
    /\ ~zoho.locked
    /\ zoho.waiters # <<>> /\ Head(zoho.waiters) = c
    /\ zoho' = StartRefresh([zoho EXCEPT !.waiters = Tail(@),
                                         !.callers[c].handed = zoho.last_refresh],
                            c)
    /\ UNCHANGED <<storeVars, hook, sigcall>>

\* the first waiter gets the released lock and checks the token again
zoho_lock_acquired(c) ==
    /\ zoho.callers[c].pc = "waiting"
    /\ ~zoho.locked
    /\ zoho.waiters # <<>> /\ Head(zoho.waiters) = c
    /\ LET z == [zoho EXCEPT !.waiters = Tail(@),
                             !.callers[c].handed = zoho.last_refresh] IN
       IF token_is_valid(z) THEN zoho' = Return(z, c)
       ELSE zoho' = StartRefresh(z, c)
    /\ UNCHANGED <<storeVars, hook, sigcall>>

\* _refresh_access_token from the answer of the post to the release of the
\* lock: _access_token is assigned first, then expires_in is read and added
\* to time.time(); a TypeError in that sum is caught with every other
\* exception, so the new token then stays with the expiry there was
zoho_refresh_completes(c) ==
    /\ zoho.callers[c].pc = "posting"
    /\ \E response \in RefreshResponses :
         LET fresh == response.access_token = "fresh"
             token == IF fresh THEN zoho.issued + 2 ELSE 0
             expires_in == IF response.expires_in.k = "absent"
                           THEN DefaultExpiresIn ELSE response.expires_in.n
             z == IF response.kind # "json" \/ response.access_token = "absent"
                  THEN [zoho EXCEPT !.last_refresh = NoRefresh]
                  ELSE IF response.expires_in.k \in {"absent", "int"}
                  THEN [zoho EXCEPT !.access_token = token,
                                    !.expires_at = zoho.now + expires_in,
                                    !.issued = IF fresh THEN @ + 1 ELSE @,
                                    !.last_refresh =
                                        [ok |-> TRUE, token |-> token,
                                         expires_in |-> expires_in]]
                  ELSE [zoho EXCEPT !.access_token = token,
                                    !.issued = IF fresh THEN @ + 1 ELSE @,
                                    !.last_refresh = NoRefresh]
         IN  zoho' = Return([z EXCEPT !.locked = FALSE], c)
    /\ UNCHANGED <<storeVars, hook, sigcall>>

\* the token has gone back to the caller, which may call again
zoho_call_done(c) ==
    /\ zoho.callers[c].pc = "done"
    /\ zoho' = [zoho EXCEPT !.callers[c] = IdleCaller]
    /\ UNCHANGED <<storeVars, hook, sigcall>>

\* time.time() moves on while no call is under way
zoho_tick ==
    /\ zoho.ticks < MaxTicks
    /\ \A c \in Callers : zoho.callers[c].pc \in {"idle", "done"}
    /\ zoho' = [zoho EXCEPT !.now = @ + TickSeconds, !.ticks = @ + 1]
    /\ UNCHANGED <<storeVars, hook, sigcall>>

(***************************************************************************)
(* Request bodies                                                          *)
(*                                                                         *)
(* A raw body is [kind, json]: kind "json" carries the value json.loads    *)
(* returns, "invalid_json" is text json.loads rejects (JSONDecodeError),   *)
(* "invalid_utf8" bytes it cannot decode (UnicodeDecodeError). A JSON      *)
(* object is [k |-> "dict", fields |-> the function from its keys].        *)
(***************************************************************************)
JDict(fields) == [k |-> "dict", fields |-> fields]
\* a JSON array and its items
JList(items) == [k |-> "list", items |-> items]
JsonBody(value) == [kind |-> "json", json |-> value]
InvalidJsonBody == [kind |-> "invalid_json", json |-> JNull]
InvalidUtf8Body == [kind |-> "invalid_utf8", json |-> JNull]

\* json.loads(raw_body)
json_loads(raw_body) ==
    CASE raw_body.kind = "invalid_json" -> [err |-> "JSONDecodeError", value |-> JNull]
      [] raw_body.kind = "invalid_utf8" -> [err |-> "UnicodeDecodeError", value |-> JNull]
      [] OTHER -> [err |-> "", value |-> raw_body.json]

\* pydantic: an Optional[str] field = None accepts an absent key, null or a str
OptionalStrOk(fields, key) ==
    key \notin DOMAIN fields \/ fields[key].k \in {"null", "str"}

\* pydantic: an Optional[dict] field = None
OptionalDictOk(fields, key) ==
    key \notin DOMAIN fields \/ fields[key].k \in {"null", "dict"}

\* pydantic: a required str field
RequiredStrOk(fields, key) == key \in DOMAIN fields /\ fields[key].k = "str"

\* a str pydantic reads as a float in lax mode: surrounding whitespace, an
\* optional sign, then inf, infinity or nan in any case, or a decimal number
\* with an optional exponent; failing that, the str with its underscores
\* taken out, when it has some, none of them first, last or doubled
IsFloatString(chars) ==
    LET FirstIndex(s, set) ==
            IF \E i \in 1..Len(s) : s[i] \in set
            THEN CHOOSE i \in 1..Len(s) :
                     s[i] \in set /\ \A j \in 1..(i - 1) : s[j] \notin set
            ELSE 0
        AllDigits(s) == \A i \in 1..Len(s) : IsDigit(s[i])
        \* digits with at most one ".", and a digit on one side of it at least
        IsMantissa(s) ==
            LET dot == FirstIndex(s, {"."}) IN
            IF dot = 0 THEN s # <<>> /\ AllDigits(s)
            ELSE /\ AllDigits(SubSeq(s, 1, dot - 1))
                 /\ AllDigits(SubSeq(s, dot + 1, Len(s)))
                 /\ Len(s) > 1
        \* an optional sign and digits
        IsExponent(s) ==
            LET digits == IF s # <<>> /\ Head(s) \in {"+", "-"} THEN Tail(s) ELSE s
            IN  digits # <<>> /\ AllDigits(digits)
        LowerChar(c) ==
            CASE c = "A" -> "a" [] c = "F" -> "f" [] c = "I" -> "i" [] c = "N" -> "n"
              [] c = "T" -> "t" [] c = "Y" -> "y" [] OTHER -> c
        FloatWords == {<<"i", "n", "f">>, <<"i", "n", "f", "i", "n", "i", "t", "y">>,
                       <<"n", "a", "n">>}
        \* the number itself, no whitespace around it
        IsFloat(cs) ==
            LET signed == cs # <<>> /\ Head(cs) \in {"+", "-"}
                body   == IF signed THEN Tail(cs) ELSE cs
                e      == FirstIndex(body, {"e", "E"})
            IN  \/ [i \in 1..Len(body) |-> LowerChar(body[i])] \in FloatWords
                \/ IF e = 0 THEN IsMantissa(body)
                   ELSE /\ IsMantissa(SubSeq(body, 1, e - 1))
                        /\ IsExponent(SubSeq(body, e + 1, Len(body)))
        \* single underscores inside the str, none at either end
        HasInnerUnderscores ==
            /\ \E i \in 1..Len(chars) : chars[i] = "_"
            /\ chars[1] # "_" /\ chars[Len(chars)] # "_"
            /\ \A i \in 1..(Len(chars) - 1) : ~(chars[i] = "_" /\ chars[i + 1] = "_")
    IN  \/ IsFloat(RStrip(LStrip(chars)))
        \/ /\ HasInnerUnderscores
           /\ IsFloat(SelectSeq(chars, LAMBDA c : c # "_"))

\* pydantic: an Optional[float] field = None (lax mode) accepts an absent key,
\* null, a JSON number, a bool, or a str that reads as a float; the value is
\* written as a raw score is, [k, cs, n, d]
OptionalFloatOk(fields, key) ==
    \/ key \notin DOMAIN fields
    \/ fields[key].k \in {"null", "int", "float", "bool", "inf", "nan"}
    \/ fields[key].k = "str" /\ IsFloatString(fields[key].cs)

PhoneKeys == <<"number", "caller_id", "phone_number", "from">>

\* from_number: Field(None, alias="from") under populate_by_name=True: the
\* key "from" when the body has it, else the key "from_number"
FromNumberKey(fields) == IF "from" \in DOMAIN fields THEN "from" ELSE "from_number"

\* ConversationInitiationRequest(**body)
ConversationInitiationRequest(body) ==
    IF body.k # "dict" THEN [err |-> "TypeError", req |-> JNull]
    ELSE IF \/ \E i \in 1..Len(PhoneKeys) : ~OptionalStrOk(body.fields, PhoneKeys[i])
            \/ ~OptionalStrOk(body.fields, FromNumberKey(body.fields))
            \/ ~OptionalStrOk(body.fields, "agent_id")
            \/ ~OptionalStrOk(body.fields, "conversation_id")
            \/ ~OptionalStrOk(body.fields, "call_sid")
         THEN [err |-> "ValidationError", req |-> JNull]
         ELSE [err |-> "", req |-> body]

\* variant: a request without a phone is given the phone "unknown"
resolve_phone_or_unknown(req) ==
    PyOr(Get(req.fields, "number", JNull),
         PyOr(Get(req.fields, "caller_id", JNull),
              PyOr(Get(req.fields, "phone_number", JNull),
                   PyOr(Get(req.fields, FromNumberKey(req.fields), JNull),
                        JStr("unknown")))))

\* ConversationInitiationRequest.resolve_phone
resolve_phone(req) ==
    PyOr(Get(req.fields, "number", JNull),
         PyOr(Get(req.fields, "caller_id", JNull),
              PyOr(Get(req.fields, "phone_number", JNull),
                   Get(req.fields, FromNumberKey(req.fields), JNull))))

\* ConversationAnalysis validation of the "analysis" value
ConversationAnalysisOk(fields) ==
    \/ "analysis" \notin DOMAIN fields
    \/ fields["analysis"].k = "null"
    \/ /\ fields["analysis"].k = "dict"
       /\ OptionalStrOk(fields["analysis"].fields, "call_successful")
       /\ OptionalStrOk(fields["analysis"].fields, "call_summary")
       /\ OptionalStrOk(fields["analysis"].fields, "transcript_summary")
       /\ OptionalDictOk(fields["analysis"].fields, "data_collection")
       /\ OptionalDictOk(fields["analysis"].fields, "evaluation_criteria_results")

\* PostCallRequest(**body)
PostCallRequest(body) ==
    LET \* an Optional[list[dict[str, Any]]] field = None
        OptionalListOfDictsOk(fields, key) ==
            \/ key \notin DOMAIN fields
            \/ fields[key].k = "null"
            \/ /\ fields[key].k = "list"
               /\ \A i \in 1..Len(fields[key].items) :
                      fields[key].items[i].k = "dict"
    IN
    IF body.k # "dict" THEN [err |-> "TypeError", req |-> JNull]
    ELSE IF /\ RequiredStrOk(body.fields, "conversation_id")
            /\ OptionalStrOk(body.fields, "agent_id")
            /\ OptionalStrOk(body.fields, "status")
            /\ OptionalFloatOk(body.fields, "call_duration_secs")
            /\ OptionalFloatOk(body.fields, "call_cost_credits")
            /\ OptionalStrOk(body.fields, "call_sid")
            /\ OptionalStrOk(body.fields, "phone_number")
            /\ OptionalListOfDictsOk(body.fields, "transcript")
            /\ ConversationAnalysisOk(body.fields)
            /\ OptionalStrOk(body.fields, "human_transfer")
            /\ OptionalDictOk(body.fields, "metadata")
            /\ OptionalDictOk(body.fields, "collected_data")
         THEN [err |-> "", req |-> body]
         ELSE [err |-> "ValidationError", req |-> JNull]

\* raw_score as post_call reads it: SAbsent when the code never reaches int()
RawScore(req) ==
    LET analysis == Get(req.fields, "analysis", JNull) IN
    IF analysis.k # "dict" THEN SAbsent
    ELSE LET data_collection == Get(analysis.fields, "data_collection", JNull) IN
         IF data_collection.k # "dict" \/ DOMAIN data_collection.fields = {}
         THEN SAbsent
         ELSE Get(data_collection.fields, "qualification_score", SNull)

(***************************************************************************)
(* Inputs of the two webhooks                                              *)
(***************************************************************************)
EmptyDict == [key \in {} |-> JNull]
Obj(fields) == JsonBody(JDict(fields))

InitiationBodies ==
    {InvalidJsonBody, InvalidUtf8Body, JsonBody(JList(<<>>)), Obj(EmptyDict),
     Obj([number |-> JStr("+1000")]),
     Obj([caller_id |-> JStr("+1000")]),
     Obj([phone_number |-> JStr("+1000")]),
     Obj([from |-> JStr("+1000")]),
     Obj([number |-> JNull, caller_id |-> JStr(""), from |-> JStr("+2000")]),
     Obj([number |-> JStr("")]),
     Obj([number |-> JInt(1000)]),
     Obj([agent_id |-> JStr("agent_test")]),
     Obj([from_number |-> JStr("+1000")]),
     Obj([from |-> JNull, from_number |-> JStr("+1000")]),
     Obj([number |-> JStr("+1000"), agent_id |-> JStr("agent_test"),
          conversation_id |-> JStr("c1"), call_sid |-> JNull]),
     Obj([number |-> JStr("+1000"), agent_id |-> JInt(7)]),
     Obj([number |-> JStr("+1000"), conversation_id |-> JInt(7)]),
     Obj([call_sid |-> JList(<<>>)])}

\* values met under analysis.data_collection.qualification_score
RawScores ==
    {SNull, SStr(<<"7", "2">>), SStr(<<" ", "7", "2", "\n">>), SStr(<<"-", "5">>),
     SStr(<<"\f", "7", "\r">>), SStr(<<"", "7", " ">>), SStr(<<"7", "\r", "2">>),
     SStr(<<"N", "/", "A">>), SStr(<<"7", "2", ".", "5">>), SStr(<<>>),
     SInt(85), SInt(-3), SFloat(729, 10), SFloat(-729, 10), SInf, SNan,
     SBool(TRUE), SBool(FALSE), SList, SDict}

Analyses ==
    {JNull, JStr("x"), JDict(EmptyDict),
     JDict([data_collection |-> JNull]),
     JDict([data_collection |-> JStr("x")]),
     JDict([data_collection |-> JDict(EmptyDict)]),
     JDict([data_collection |-> JDict([budget |-> JStr("high")])]),
     JDict([call_successful |-> JStr("success"), call_summary |-> JStr("Asked for a viewing"),
            transcript_summary |-> JNull,
            evaluation_criteria_results |-> JDict(EmptyDict),
            data_collection |-> JDict([qualification_score |-> SInt(40)])]),
     JDict([call_summary |-> JInt(7)]),
     JDict([call_successful |-> JBool(TRUE)]),
     JDict([transcript_summary |-> JList(<<>>)]),
     JDict([evaluation_criteria_results |-> JStr("x")])}
    \cup {JDict([data_collection |-> JDict([qualification_score |-> raw])]) :
             raw \in RawScores}

PostCallBodies ==
    {InvalidJsonBody, InvalidUtf8Body, JsonBody(JList(<<>>)), Obj(EmptyDict),
     Obj([conversation_id |-> JInt(7)]),
     Obj([conversation_id |-> JNull]),
     Obj([status |-> JStr("done")]),
     Obj([conversation_id |-> JStr("c1")]),
     Obj([conversation_id |-> JStr("")]),
     Obj([conversation_id |-> JStr("c1"), status |-> JInt(1)]),
     Obj([conversation_id |-> JStr("c2"), status |-> JStr("done"),
          human_transfer |-> JStr("failure")]),
     Obj([conversation_id |-> JStr("c2"), human_transfer |-> JStr("success")]),
     Obj([conversation_id |-> JStr("c3"), human_transfer |-> JStr("failure"),
          analysis |-> JDict([data_collection |->
                                JDict([qualification_score |-> SStr(<<"7", "2">>)])])]),
     Obj([conversation_id |-> JStr("c3"), human_transfer |-> JStr("failure"),
          analysis |-> JDict([data_collection |->
                                JDict([qualification_score |-> SInf])])])}
    \cup {Obj([conversation_id |-> JStr("c1"), analysis |-> a]) : a \in Analyses}
    \* values met under call_duration_secs
    \cup {Obj([conversation_id |-> JStr("c4"), call_duration_secs |-> d]) :
             d \in {SNull, SInt(60), SFloat(1255, 10), SBool(TRUE), SInf,
                  SStr(<<"1", "2", ".", "5">>), SStr(<<" ", "-", ".", "5", "e", "+", "2", "\n">>),
                  SStr(<<"I", "n", "f">>), SStr(<<"l", "o", "n", "g">>), SStr(<<".">>),
                  SStr(<<"1", "e">>), SStr(<<>>), SList, SDict,
                  SStr(<<"1", "_", "0", "0", "0">>), SStr(<<"1", "_", "0", ".", "5">>),
                  SStr(<<"1", "_", "e", "5">>), SStr(<<"_", "1">>),
                  SStr(<<"1", "_", "_", "0">>), SStr(<<"1", "_">>)}}
    \* values met under transcript
    \cup {Obj([conversation_id |-> JStr("c5"), transcript |-> tr]) :
             tr \in {JNull, JList(<<>>), JList(<<JDict([role |-> JStr("agent")]), JDict(EmptyDict)>>),
                  JStr("hello"), JList(<<JInt(1)>>),
                  JList(<<JDict(EmptyDict), JStr("x")>>), JDict(EmptyDict)}}
    \cup {Obj([conversation_id |-> JStr("c6"), agent_id |-> JStr("agent_test"),
               status |-> JStr("done"), call_duration_secs |-> SFloat(1255, 10),
               call_cost_credits |-> SInt(12), call_sid |-> JStr("CA1"),
               phone_number |-> JStr("+1000"),
               transcript |-> JList(<<JDict([role |-> JStr("agent")])>>),
               human_transfer |-> JStr("failure"),
               metadata |-> JDict(EmptyDict), collected_data |-> JNull]),
          Obj([conversation_id |-> JStr("c1"), agent_id |-> JInt(7)]),
          Obj([conversation_id |-> JStr("c1"), call_sid |-> JInt(7)]),
          Obj([conversation_id |-> JStr("c1"), phone_number |-> JInt(7)]),
          Obj([conversation_id |-> JStr("c1"), call_cost_credits |-> SList]),
          Obj([conversation_id |-> JStr("c1"), metadata |-> JStr("m")]),
          Obj([conversation_id |-> JStr("c1"),
               collected_data |-> JList(<<JInt(1)>>)])}

\* os.environ.get("ELEVENLABS_WEBHOOK_SECRET")
Secrets == {None, Some(""), Some("s3cret")}

\* the X-ElevenLabs-Signature header values sent with raw_body
Signatures(raw_body) ==
    {NoHeader, Header(<<>>), Header(Text("deadbeef")), Header(NonAsciiText),
     Header(HexDigest("s3cret", raw_body)),
     Header(HexDigest("guess", raw_body)),
     Header(HexDigest("s3cret", InvalidJsonBody))}

(***************************************************************************)
(* Lead records a registered lookup returns                                *)
(***************************************************************************)
SampleLead ==
    [First_Name |-> JStr("James"), Last_Name |-> JStr("Wilson"),
     Lead_Status |-> JStr("contacted"), qualification_score |-> JInt(65),
     Lead_Type |-> JStr("2BR apartment"), Lead_Source |-> JStr("Meta Lead Ad"),
     call_timestamp |-> JStr("2026-02-10T14:30:00Z"),
     call_summary |-> JStr("Interested in fractional ownership"),
     DistributionID |-> JStr("OH-12345"),
     Budget_Range |-> JStr("£150,000 - £200,000"),
     Investment_Timeline |-> JStr("3-6 months"),
     Preferred_Location |-> JStr("Dubai Marina"),
     Nationality |-> JStr("British"), Occupation |-> JStr("Software Engineer")]

SparseLead == [First_Name |-> JStr("Sarah"), Lead_Status |-> JStr("new")]

\* a record whose fallback keys are the populated ones
FallbackLead ==
    [Campaign |-> JStr("spring"), Modified_Time |-> JStr("2026-01-01"),
     Description |-> JStr("walk-in"), Record_Id |-> JInt(42),
     Lead_Status |-> JStr("New")]

WithoutKey(lead, key) == [name \in DOMAIN lead \ {key} |-> lead[name]]
WithNull(lead, key) == [lead EXCEPT ![key] = JNull]

\* well-formed records: full, partial, and each field missing or null
WellFormedLeads ==
    {SampleLead, SparseLead, FallbackLead}
    \cup {WithoutKey(SampleLead, key) : key \in DOMAIN SampleLead}
    \cup {WithNull(SampleLead, key) : key \in DOMAIN SampleLead}

\* records DynamicVariables rejects: a value that is not a string
MalformedLeads ==
    {[SampleLead EXCEPT !["First_Name"] = JInt(7)],
     [SampleLead EXCEPT !["Budget_Range"] = JInt(150000)],
     [SparseLead EXCEPT !["Lead_Status"] = JBool(TRUE)]}

\* what a call of the registered lookup does
LookupOutcomes ==
    {[kind |-> "raise", lead |-> EmptyDict],
     [kind |-> "none", lead |-> EmptyDict],
     [kind |-> "dict", lead |-> EmptyDict],
     [kind |-> "list", lead |-> EmptyDict]}
    \cup {[kind |-> "dict", lead |-> l] :
            l \in WellFormedLeads \cup MalformedLeads}
    \* records whose Lead_Status is a falsy value that is not a string
    \cup {[kind |-> "dict", lead |-> [SparseLead EXCEPT !["Lead_Status"] = JInt(0)]],
          [kind |-> "dict", lead |-> [SampleLead EXCEPT !["Lead_Status"] = JBool(FALSE)]]}

\* what a call of the registered post-call handler does
HandlerOutcomes == {"ok", "raise"}

(***************************************************************************)
(* The webhook endpoints. One request is followed from its arrival to its  *)
(* response; hook holds the module globals (_lead_lookup_fn,               *)
(* _post_call_handler_fn), the environment's secret and the request.       *)
(***************************************************************************)
NoResponse ==
    [status_code |-> 0, dynamic_variables |-> DefaultVariables,
     received |-> FALSE, conversation_id |-> JNull,
     transfer_failure_flagged |-> FALSE]

\* HTTPException(status_code), or 500 for an exception no handler catches
ErrorResponse(status_code) == [NoResponse EXCEPT !.status_code = status_code]

\* ConversationInitiationResponse(dynamic_variables=...): dict[str, str]
ConversationInitiationResponse(dynamic_variables) ==
    IF \A name \in DOMAIN dynamic_variables : dynamic_variables[name].k = "str"
    THEN [NoResponse EXCEPT !.status_code = 200,
                            !.dynamic_variables = dynamic_variables]
    ELSE ErrorResponse(500)

PostCallResponse(conversation_id, transfer_failure) ==
    [NoResponse EXCEPT !.status_code = 200, !.received = TRUE,
                       !.conversation_id = conversation_id,
                       !.transfer_failure_flagged = transfer_failure]

NoLeadUpdate ==
    [conversation_id |-> JNull, call_status |-> JNull, qualification_score |-> 0,
     human_transfer |-> JNull, transfer_failure |-> FALSE]

NoOutcome == [kind |-> "pending", lead |-> EmptyDict]

IdleHook(secret, lead_lookup_fn, post_call_handler_fn) ==
    [pc |-> "idle", endpoint |-> "none",
     secret |-> secret, lead_lookup_fn |-> lead_lookup_fn,
     post_call_handler_fn |-> post_call_handler_fn,
     raw_body |-> InvalidJsonBody, signature |-> NoHeader,
     phone |-> JNull, lookup_invoked |-> FALSE, lookup_stalls |-> FALSE,
     lookup_outcome |-> NoOutcome,
     lead_update |-> NoLeadUpdate, handler_invoked |-> FALSE,
     handler_outcome |-> "pending", response |-> NoResponse]

Respond(h, response) == [h EXCEPT !.pc = "responded", !.response = response]

\* the code between the arrival of the body and the parsed JSON value:
\* status_code 0 when the handler goes on
Admit(raw_body, signature, secret) ==
    LET verified == verify_elevenlabs_signature(raw_body, signature, secret)
        parsed == json_loads(raw_body)
    IN  CASE verified.err # ""               -> 500
          [] ~verified.ok                    -> 403
          [] parsed.err = "JSONDecodeError"  -> 400
          [] parsed.err # ""                 -> 500
          [] OTHER                           -> 0

\* variant: a failed lookup is not caught
InitiationOutcomeUncaught(outcome, phone) ==
    CASE outcome.kind = "raise" -> ErrorResponse(500)
      [] outcome.kind = "none" \/ (outcome.kind = "dict" /\ DOMAIN outcome.lead = {})
           -> ConversationInitiationResponse([DefaultVariables EXCEPT !.phone = phone])
      [] outcome.kind = "list" -> ErrorResponse(500)
      [] OTHER ->
           LET mapped == map_lead_to_variables(outcome.lead, phone) IN
           IF mapped.err # "" THEN ErrorResponse(500)
           ELSE ConversationInitiationResponse(mapped.vars)

\* conversation_initiation from the return of _lookup_lead to the response
InitiationOutcome(outcome, phone) ==
    LET defaults == [DefaultVariables EXCEPT !.phone = phone] IN
    CASE outcome.kind = "raise" -> ConversationInitiationResponse(defaults)
      [] outcome.kind = "none" \/ (outcome.kind = "dict" /\ DOMAIN outcome.lead = {})
           -> ConversationInitiationResponse(defaults)
      \* a truthy value without .get: AttributeError, caught
      [] outcome.kind = "list" -> ConversationInitiationResponse(defaults)
      [] OTHER ->
           LET mapped == map_lead_to_variables(outcome.lead, phone) IN
           IF mapped.err # "" THEN ConversationInitiationResponse(defaults)
           ELSE ConversationInitiationResponse(mapped.vars)

conversation_initiation ==
    /\ hook.pc = "idle"
    /\ \E raw_body \in InitiationBodies : \E signature \in Signatures(raw_body) :
         LET h == [hook EXCEPT !.endpoint = "conversation-initiation",
                               !.raw_body = raw_body, !.signature = signature]
             admit == Admit(raw_body, signature, hook.secret)
             req == ConversationInitiationRequest(json_loads(raw_body).value)
         IN  IF admit # 0 THEN hook' = Respond(h, ErrorResponse(admit))
             ELSE IF req.err # "" THEN hook' = Respond(h, ErrorResponse(500))
             ELSE LET phone == resolve_phone(req.req) IN
                  IF ~PyTruthy(phone)
                  THEN hook' = Respond([h EXCEPT !.phone = phone],
                                 ConversationInitiationResponse(DefaultVariables))
                  ELSE IF hook.lead_lookup_fn = "none"
                  THEN hook' = Respond([h EXCEPT !.phone = phone],
                                 InitiationOutcome([kind |-> "none", lead |-> EmptyDict],
                                                   phone))
                  ELSE \E stalls \in BOOLEAN :
                         hook' = [h EXCEPT !.pc = "awaiting_lookup",
                                           !.phone = phone,
                                           !.lookup_invoked = TRUE,
                                           !.lookup_stalls = stalls]
    /\ UNCHANGED <<storeVars, utilVars>>

\* the awaited lookup returns or raises
lookup_completes ==
    /\ hook.pc = "awaiting_lookup"
    /\ ~hook.lookup_stalls
    /\ \E outcome \in LookupOutcomes :
         hook' = Respond([hook EXCEPT !.lookup_outcome = outcome],
                         InitiationOutcome(outcome, hook.phone))
    /\ UNCHANGED <<storeVars, utilVars>>

\* post_call's lead_update, of the fields the claims read
LeadUpdate(req, qualification_score) ==
    [conversation_id |-> req.fields["conversation_id"],
     call_status |-> PyOr(Get(req.fields, "status", JNull), JStr("unknown")),
     qualification_score |-> qualification_score,
     human_transfer |-> Get(req.fields, "human_transfer", JNull),
     transfer_failure |-> Get(req.fields, "human_transfer", JNull) = JStr("failure")]

\* post_call from the return of _handle_post_call to the response
PostCallOutcome(outcome, lead_update) ==
    PostCallResponse(lead_update.conversation_id, lead_update.transfer_failure)

post_call ==
    /\ hook.pc = "idle"
    /\ \E raw_body \in PostCallBodies : \E signature \in Signatures(raw_body) :
         LET h == [hook EXCEPT !.endpoint = "post-call",
                               !.raw_body = raw_body, !.signature = signature]
             admit == Admit(raw_body, signature, hook.secret)
             req == PostCallRequest(json_loads(raw_body).value)
         IN  IF admit # 0 THEN hook' = Respond(h, ErrorResponse(admit))
             ELSE IF req.err # "" THEN hook' = Respond(h, ErrorResponse(500))
             ELSE LET score == ExtractScore(RawScore(req.req)) IN
                  IF score.err # "" THEN hook' = Respond(h, ErrorResponse(500))
                  ELSE LET lead_update == LeadUpdate(req.req, score.n)
                           h2 == [h EXCEPT !.lead_update = lead_update]
                       IN  IF hook.post_call_handler_fn = "none"
                           THEN hook' = Respond(h2, PostCallOutcome("ok", lead_update))
                           ELSE hook' = [h2 EXCEPT !.pc = "awaiting_handler",
                                                   !.handler_invoked = TRUE]
    /\ UNCHANGED <<storeVars, utilVars>>

\* the awaited post-call handler returns or raises
handler_completes ==
    /\ hook.pc = "awaiting_handler"
    /\ \E outcome \in HandlerOutcomes :
         hook' = Respond([hook EXCEPT !.handler_outcome = outcome],
                         PostCallOutcome(outcome, hook.lead_update))
    /\ UNCHANGED <<storeVars, utilVars>>

\* the response is sent; the next request may arrive
request_done ==
    /\ hook.pc = "responded"
    /\ hook' = IdleHook(hook.secret, hook.lead_lookup_fn, hook.post_call_handler_fn)
    /\ UNCHANGED <<storeVars, utilVars>>

RegisteredFns == {"none", "fn"}

set_lead_lookup ==
    /\ \E fn \in RegisteredFns \ {hook.lead_lookup_fn} :
         hook' = [hook EXCEPT !.lead_lookup_fn = fn]
    /\ UNCHANGED <<storeVars, utilVars>>

set_post_call_handler ==
    /\ \E fn \in RegisteredFns \ {hook.post_call_handler_fn} :
         hook' = [hook EXCEPT !.post_call_handler_fn = fn]
    /\ UNCHANGED <<storeVars, utilVars>>

InitWebhook ==
    /\ leads = <<>>
    /\ events = [k \in {} |-> NoResult]
    /\ tasks = [t \in Tasks |-> IdleTask]
    /\ nextUuid = 0
    /\ ncalls = 0
    /\ webhookUrl = FALSE
    /\ posts = {}
    /\ history = [k \in {} |-> [miss |-> FALSE, seen |-> 0]]
    /\ inserted = 0
    /\ \E secret \in Secrets : hook = IdleHook(secret, "none", "none")
    /\ sigcall = NoSigCall
    /\ zoho = NoManager

NextWebhook ==
    \/ conversation_initiation
    \/ lookup_completes
    \/ post_call
    \/ handler_completes
    \/ request_done
    \/ set_lead_lookup
    \/ set_post_call_handler

SpecWebhook == InitWebhook /\ [][NextWebhook]_vars

\* every awaited call that can complete does, and responses are delivered
FairSpecWebhook ==
    /\ SpecWebhook
    /\ WF_vars(lookup_completes)
    /\ WF_vars(handler_completes)
    /\ WF_vars(request_done)

NoHook == [pc |-> "none"]

Init ==
    /\ leads = <<>>
    /\ events = [k \in {} |-> NoResult]
    /\ tasks = [t \in Tasks |-> IdleTask]
    /\ nextUuid = 0
    /\ ncalls = 0
    /\ webhookUrl \in BOOLEAN
    /\ posts = {}
    /\ history = [k \in {} |-> [miss |-> FALSE, seen |-> 0]]
    /\ inserted = 0
    /\ hook = NoHook
    /\ sigcall = NoSigCall
    /\ zoho = NoManager

Next ==
    \E t \in Tasks :
        \/ ingest_lead(t)
        \/ ingest_resolve(t)
        \/ ingest_insert_lead(t)
        \/ process_twilio_event(t)
        \/ process_notion_event(t)
        \/ process_elevenlabs_event(t)
        \/ process_calcom_event(t)
        \/ calcom_find(t)
        \/ tool_insert_event(t)
        \/ store_raises(t)
        \/ publish_event(t)
        \/ tool_return(t)
        \/ task_done(t)

Spec == Init /\ [][Next]_vars

\* ingest_lead calls made one at a time, each run to its end before the next
NextInTurn ==
    \E t \in Tasks :
        \/ ingest_lead_in_turn(t)
        \/ ingest_resolve(t)
        \/ ingest_insert_lead(t)
        \/ tool_insert_event(t)
        \/ store_raises(t)
        \/ publish_event(t)
        \/ tool_return(t)
        \/ task_done(t)

SpecInTurn == Init /\ [][NextInTurn]_vars

\* the store and the tools at rest, for the specifications of the utilities
StoreAtRest ==
    /\ leads = <<>>
    /\ events = [k \in {} |-> NoResult]
    /\ tasks = [t \in Tasks |-> IdleTask]
    /\ nextUuid = 0
    /\ ncalls = 0
    /\ webhookUrl = FALSE
    /\ posts = {}
    /\ history = [k \in {} |-> [miss |-> FALSE, seen |-> 0]]
    /\ inserted = 0
    /\ hook = NoHook

InitSignature ==
    /\ StoreAtRest
    /\ \E env \in Environments : sigcall = IdleSigCall(env)
    /\ zoho = NoManager

NextSignature == verify_signature_call \/ verify_signature_done

SpecSignature == InitSignature /\ [][NextSignature]_vars

InitZoho ==
    /\ StoreAtRest
    /\ sigcall = NoSigCall
    /\ \E has_oauth_credentials \in BOOLEAN, access_token \in {0, 1} :
         zoho = ZohoTokenManager(has_oauth_credentials, access_token)

NextZoho ==
    \/ zoho_tick
    \/ \E c \in Callers :
         \/ zoho_get_access_token(c)
         \/ zoho_lock_acquired(c)
         \/ zoho_refresh_completes(c)
         \/ zoho_call_done(c)

SpecZoho == InitZoho /\ [][NextZoho]_vars

(***************************************************************************)
(* Identity resolution                                                     *)
(***************************************************************************)
\* the stored lead records whose own ingest_lead call minted their identity
MintedRecords == {i \in 1..Len(leads) : history[leads[i].ingest_id].miss}

\* a lookup (e, p) supplies a non-empty field of record r
SuppliesFieldOf(r, e, p) ==
    \/ Truthy(e) /\ e = r.lead.person.email
    \/ Truthy(p) /\ p = r.lead.person.phone

LookupLead(e, p) == [source_system |-> "WEB", person |-> [email |-> e, phone |-> p]]

\* C1 as stated: an identity minted by a lookup miss and stored with a lead record
\* (e, p) is what every later find_ohid_by_contact / resolve_ohid returns when it
\* is given e or p, whatever the other field given is.
C1_MintedAlwaysReturned ==
    \A i \in MintedRecords : \A e \in Emails, p \in Phones :
        SuppliesFieldOf(leads[i], e, p) =>
            /\ find_ohid_by_contact(leads, e, p) = leads[i].ohid
            /\ resolve_ohid(leads, LookupLead(e, p), Uuid(nextUuid + 1)) = leads[i].ohid

\* C1 amended: the minted identity is returned by every later lookup that gives a
\* non-empty e or p, as long as every stored record matching a given field carries
\* that identity (identities are never merged: when the other field belongs to a
\* record of another identity, one of the two is returned).
C1_MintedReturnedUnlessOverlap ==
    \A i \in MintedRecords : \A e \in Emails, p \in Phones :
        ( /\ SuppliesFieldOf(leads[i], e, p)
          /\ \A j \in 1..Len(leads) :
                RecordMatches(leads[j], e, p) => leads[j].ohid = leads[i].ohid )
        => /\ find_ohid_by_contact(leads, e, p) = leads[i].ohid
           /\ resolve_ohid(leads, LookupLead(e, p), Uuid(nextUuid + 1)) = leads[i].ohid

\* a minted identity found through its phone alone while another identity is stored
C1_Witness ==
    \E i \in MintedRecords, j \in 1..Len(leads) :
        /\ leads[j].ohid # leads[i].ohid
        /\ Truthy(leads[i].lead.person.phone)
        /\ Truthy(leads[i].lead.person.email)
        /\ find_ohid_by_contact(leads, None, leads[i].lead.person.phone) = leads[i].ohid
        /\ find_ohid_by_contact(leads, leads[i].lead.person.email, None) = leads[i].ohid

\* C2: two stored records that share a non-empty contact field can both carry an
\* identity of their own only through interleaving: the later record's lookup ran
\* before the earlier record was inserted (check-then-act); nothing else stops the
\* second insert.
C2_DuplicateOnlyByInterleaving ==
    \A i \in 1..Len(leads), j \in 1..Len(leads) :
        ( /\ i < j
          /\ j \in MintedRecords
          /\ SuppliesFieldOf(leads[i], leads[j].lead.person.email,
                                       leads[j].lead.person.phone) )
        => history[leads[j].ingest_id].seen < i

\* both lookups missed and two records for one email carry distinct identities
C2_Witness ==
    \E i \in MintedRecords, j \in MintedRecords :
        /\ i < j
        /\ Truthy(leads[i].lead.person.email)
        /\ leads[i].lead.person.email = leads[j].lead.person.email
        /\ leads[i].ohid # leads[j].ohid

(***************************************************************************)
(* Persist before publish                                                  *)
(***************************************************************************)
PastInsert(task) ==
    \/ task.pc \in {"publish_event", "return"}
    \/ task.pc = "done" /\ task.result.status # "challenge"

\* C3: in every event-emitting tool the workflow event is in the store before the
\* publish attempt begins and stays there; a failed publish never ends the tool
\* with an error, and the tool returns its ingested/accepted result.
C3_PersistBeforePublish ==
    /\ \A t \in Tasks : PastInsert(tasks[t]) =>
          /\ tasks[t].event_id \in DOMAIN events
          /\ events[tasks[t].event_id].event_type = tasks[t].event_type
    /\ \A p \in posts : p.event_id \in DOMAIN events
    /\ \A t \in Tasks : tasks[t].pc = "raised" => tasks[t].pub = "none"
    /\ \A t \in Tasks : (tasks[t].pc = "done" /\ tasks[t].pub = "HTTPError") =>
          tasks[t].result.status \in {"ingested", "accepted"}

(***************************************************************************)
(* ElevenLabs webhooks (SpecWebhook)                                       *)
(***************************************************************************)
Responded == hook.pc = "responded"
\* the request in hook passed the signature check and json.loads
HookAdmitted == Admit(hook.raw_body, hook.signature, hook.secret) = 0
InitiationAccepted ==
    /\ hook.endpoint = "conversation-initiation"
    /\ HookAdmitted
    /\ ConversationInitiationRequest(json_loads(hook.raw_body).value).err = ""
PostCallAccepted ==
    /\ hook.endpoint = "post-call"
    /\ HookAdmitted
    /\ PostCallRequest(json_loads(hook.raw_body).value).err = ""

\* the lookup raised, returned nothing, or returned what cannot be mapped
LookupFailed(outcome, phone) ==
    \/ outcome.kind \in {"raise", "none", "list"}
    \/ /\ outcome.kind = "dict"
       /\ \/ DOMAIN outcome.lead = {}
          \/ map_lead_to_variables(outcome.lead, phone).err # ""

\* C4: an accepted conversation-initiation request with a phone whose lookup
\* raises, returns nothing or returns a malformed record is answered 200
\* with the default variables, phone alone set to the supplied phone.
C4_LookupFailureGivesDefaults ==
    (Responded /\ InitiationAccepted /\ hook.lookup_invoked
       /\ LookupFailed(hook.lookup_outcome, hook.phone))
    => /\ hook.response.status_code = 200
       /\ PyTruthy(hook.phone)
       /\ hook.response.dynamic_variables
            = [DefaultVariables EXCEPT !.phone = hook.phone]

C4_Witness ==
    /\ Responded /\ InitiationAccepted /\ hook.lookup_invoked
    /\ hook.lookup_outcome.kind = "dict"
    /\ hook.lookup_outcome.lead \in MalformedLeads
    /\ hook.response.dynamic_variables.phone = JStr("+1000")
    /\ hook.response.dynamic_variables.first_name = JStr("there")

\* C5: every accepted conversation-initiation request, whatever the lookup
\* returns, is answered with dynamic_variables holding exactly the sixteen
\* named keys, each a string.
C5_SixteenStringVariables ==
    (Responded /\ InitiationAccepted)
    => /\ hook.response.status_code = 200
       /\ DOMAIN hook.response.dynamic_variables = VarNames
       /\ Cardinality(DOMAIN hook.response.dynamic_variables) = 16
       /\ \A name \in VarNames : hook.response.dynamic_variables[name].k = "str"

C5_Witness ==
    /\ Responded /\ InitiationAccepted
    /\ hook.lookup_outcome.kind = "dict"
    /\ hook.lookup_outcome.lead = WithNull(SampleLead, "Budget_Range")
    /\ hook.response.dynamic_variables.budget_range = JStr("not discussed")
    /\ hook.response.dynamic_variables.qualification_score = JStr("65")
    /\ hook.response.dynamic_variables.first_name = JStr("James")

\* C6: a conversation-initiation request whose lookup has been called is
\* eventually answered, also when the lookup never completes.
C6_InitiationAlwaysResponds ==
    (hook.pc = "awaiting_lookup") ~> Responded

\* C7: every post-call request that passes signature and body validation is
\* answered with received = true and its own conversation_id, whatever the
\* post-call handler does.
C7_PostCallAcknowledged ==
    (Responded /\ PostCallAccepted)
    => /\ hook.response.status_code = 200
       /\ hook.response.received
       /\ hook.response.conversation_id
            = json_loads(hook.raw_body).value.fields["conversation_id"]

\* the score the record must carry: the integer of a numeric value, else 0
ClaimedScore(raw) ==
    CASE raw.k = "int" -> raw.n
      [] raw.k = "float" ->
           IF raw.n >= 0 THEN raw.n \div raw.d ELSE -((-raw.n) \div raw.d)
      [] raw.k = "str" /\ ParseInt(raw.cs).err = "" -> ParseInt(raw.cs).n
      [] OTHER -> 0

\* C8: for every raw qualification_score of an accepted post-call request the
\* request does not fail and lead_update carries the integer score: the
\* parsed integer of a numeric value, 0 otherwise.
C8_ScoreExtractionNeverFails ==
    (Responded /\ PostCallAccepted)
    => /\ hook.response.status_code = 200
       /\ hook.lead_update.qualification_score
            = ClaimedScore(RawScore(json_loads(hook.raw_body).value))

\* the header is missing or is not the HMAC of the body under the secret
SignatureMissingOrWrong ==
    \/ ~hook.signature.present
    \/ hook.signature.text # HexDigest(hook.secret[1], hook.raw_body)

\* C9: with a secret configured, a request whose signature is missing or does
\* not match is answered 403 and neither the lookup nor the post-call handler
\* is called; with no secret configured no request is answered 403.
C9_BadSignatureRejected ==
    (hook.endpoint # "none")
    => /\ (Truthy(hook.secret) /\ SignatureMissingOrWrong)
            => /\ Responded
               /\ hook.response.status_code = 403
               /\ ~hook.lookup_invoked
               /\ ~hook.handler_invoked
       /\ (~Truthy(hook.secret) /\ Responded) => hook.response.status_code # 403

\* the body is not valid JSON, or a post-call body lacks or mistypes the
\* required conversation_id
BodyInvalid ==
    \/ hook.raw_body.kind = "invalid_json"
    \/ /\ hook.endpoint = "post-call"
       /\ hook.raw_body.kind = "json"
       /\ hook.raw_body.json.k = "dict"
       /\ ~RequiredStrOk(hook.raw_body.json.fields, "conversation_id")

SignaturePasses ==
    LET verified ==
          verify_elevenlabs_signature(hook.raw_body, hook.signature, hook.secret)
    IN  verified.err = "" /\ verified.ok

\* C10: a request whose body is not valid JSON, or lacks or mistypes a
\* required field, is answered with a 4xx status and neither the lookup nor
\* the post-call handler is called.
C10_InvalidBodyRejected4xx ==
    (hook.endpoint # "none" /\ SignaturePasses /\ BodyInvalid)
    => /\ Responded
       /\ hook.response.status_code \in 400..499
       /\ ~hook.lookup_invoked
       /\ ~hook.handler_invoked

(***************************************************************************)
(* Tools of servers/lead_ingest.py, continued (Spec)                       *)
(***************************************************************************)
LeadStored(ingest_id) == \E i \in 1..Len(leads) : leads[i].ingest_id = ingest_id

\* C11: an ingest_lead call in which a store operation failed ends with the
\* error, never with status "ingested"; a result with status "ingested"
\* means the lead record and the LeadIngested event were both stored.
C11_StoreFailureSurfaced ==
    \A t \in Tasks :
        /\ tasks[t].pc = "raised" => tasks[t].result.status = "error"
        /\ (tasks[t].tool = "ingest_lead" /\ tasks[t].result.status = "ingested")
             => /\ tasks[t].pc = "done"
                /\ LeadStored(tasks[t].event_id)
                /\ tasks[t].event_id \in DOMAIN events
                /\ events[tasks[t].event_id].event_type = "LeadIngested"

\* insert_workflow_event failed after the lead record was stored
C11_Witness ==
    \E t \in Tasks :
        /\ tasks[t].tool = "ingest_lead"
        /\ tasks[t].pc = "raised"
        /\ tasks[t].result.status = "error"
        /\ LeadStored(tasks[t].event_id)
        /\ tasks[t].event_id \notin DOMAIN events

\* C12: every stored workflow event carries an id drawn by uuid4 when the
\* tool normalised it, whatever the native payload holds, so no two accepted
\* events share an id.
C12_EventIdsFresh ==
    /\ \A event_id \in DOMAIN events : event_id[1] = "uuid4"
    /\ \A t1, t2 \in Tasks :
         (t1 # t2 /\ PastInsert(tasks[t1]) /\ PastInsert(tasks[t2]))
         => tasks[t1].event_id # tasks[t2].event_id

\* C13: the event log only grows: the number of stored events is the number
\* of insert_workflow_event calls that were accepted.
C13_AppendOnly == Cardinality(DOMAIN events) = inserted

\* C14: process_notion_event on a payload with a "challenge" key returns that
\* challenge and nothing else in the very step that starts it: no store
\* access, no insert, no publish.
C14_ChallengeShortCircuit ==
    [][\A t \in Tasks :
         (/\ tasks[t].pc = "idle" /\ tasks'[t].pc # "idle"
          /\ tasks'[t].tool = "process_notion_event"
          /\ tasks'[t].challenge # None)
         => /\ tasks'[t].pc = "done"
            /\ tasks'[t].result = [NoResult EXCEPT !.status = "challenge",
                                                   !.challenge = tasks'[t].challenge]
            /\ UNCHANGED <<leads, events, posts, inserted>>]_vars

\* a challenge answered while the store already holds an event
C14_Witness ==
    \E t \in Tasks :
        /\ tasks[t].pc = "done"
        /\ tasks[t].result.status = "challenge"
        /\ tasks[t].result.challenge = Some("tok")
        /\ inserted = 1
        /\ Cardinality(DOMAIN events) = 1
        /\ posts = {}

IsNotionEvent(task) == task.tool = "process_notion_event" /\ task.challenge = None

\* C15: process_notion_event on a payload without a challenge stores, in its
\* insert step, one NotionEvent whose event_subtype is the payload's type, and
\* returns accepted with event_id equal to the payload's "id" when it has one.
C15_NotionEventStored ==
    [][\A t \in Tasks :
         /\ (IsNotionEvent(tasks[t]) /\ tasks[t].pc = "insert_workflow_event"
               /\ tasks'[t].pc = "publish_event")
            => /\ inserted' = inserted + 1
               /\ tasks[t].event_id \in DOMAIN events'
               /\ events'[tasks[t].event_id].event_type = "NotionEvent"
               /\ events'[tasks[t].event_id].source_system = "NOTION"
               /\ events'[tasks[t].event_id].payload.event_subtype = tasks[t].native
               /\ tasks[t].native \in (NotionTypes \ {None}) \cup {Some("notion.event")}
         /\ (IsNotionEvent(tasks[t]) /\ tasks[t].pc = "return"
               /\ tasks'[t].pc = "done")
            => /\ tasks'[t].result.status = "accepted"
               /\ tasks[t].payload_id # None
                    => tasks'[t].result.event_id = tasks[t].payload_id
               /\ tasks'[t].result.event_id = tasks[t].event_id]_vars

C15_Witness ==
    \E t \in Tasks :
        /\ IsNotionEvent(tasks[t]) /\ tasks[t].pc = "done"
        /\ tasks[t].payload_id = <<"notion", 1>>
        /\ tasks[t].result.status = "accepted"
        /\ tasks[t].result.event_id = <<"notion", 1>>
        /\ events[<<"notion", 1>>].payload.event_subtype = Some("page.created")

\* the stored records that match the attendee's contact fields
ContactHits(email, phone) ==
    {i \in 1..Len(leads) : RecordMatches(leads[i], email, phone)}

FirstHit(hits) == CHOOSE i \in hits : \A j \in hits : i <= j

\* C16: process_calcom_event reads the store exactly when an attendee email or
\* phone is supplied and attaches what the lookup yields at that moment (null
\* when no record matches) to the stored and the returned event; with neither
\* supplied it attaches null without a lookup. process_twilio_event and
\* process_elevenlabs_event store a null identity.
C16_CalcomIdentityAttached ==
    [][\A t \in Tasks :
         LET old == tasks[t]
             new == tasks'[t]
         IN
         /\ (old.pc = "idle" /\ new.tool = "process_calcom_event")
            => IF Truthy(new.email) \/ Truthy(new.phone)
               THEN new.pc = "find_ohid_by_contact"
               ELSE new.pc = "insert_workflow_event" /\ new.ohid = None
         /\ (old.pc = "find_ohid_by_contact" /\ new.pc = "insert_workflow_event")
            => LET hits == ContactHits(old.email, old.phone) IN
               /\ hits = {} => new.ohid = None
               /\ hits # {} => new.ohid = leads[FirstHit(hits)].ohid
         /\ (old.pc = "insert_workflow_event" /\ new.pc = "publish_event"
               /\ old.tool = "process_calcom_event")
            => /\ events'[old.event_id].ohid = old.ohid
               /\ events'[old.event_id].payload.ohid = old.ohid
         /\ (old.pc = "return" /\ new.pc = "done"
               /\ old.tool = "process_calcom_event")
            => new.result.ohid = old.ohid
         /\ (old.pc = "insert_workflow_event" /\ new.pc = "publish_event"
               /\ old.tool \in {"process_twilio_event", "process_elevenlabs_event"})
            => /\ events'[old.event_id].ohid = None
               /\ events'[old.event_id].payload.ohid = None]_vars

\* a booking whose attendee matches an ingested lead carries that lead's identity
C16_Witness ==
    \E t \in Tasks :
        /\ tasks[t].tool = "process_calcom_event" /\ tasks[t].pc = "done"
        /\ Len(leads) = 1
        /\ tasks[t].result.ohid = leads[1].ohid
        /\ events[tasks[t].event_id].ohid = leads[1].ohid
        /\ Truthy(leads[1].ohid)

\* the tool of this task has stored its event and, when done, returned
Stored(task, tool) == task.tool = tool /\ PastInsert(task)

\* C17: process_twilio_event stores and returns CallReceived exactly for the
\* statuses ringing, queued, initiated and CallCompleted for every other
\* status; the type depends on the status alone and the stored type is the
\* returned one.
C17_TwilioMapping ==
    \A t \in Tasks :
        Stored(tasks[t], "process_twilio_event")
        => LET stored == events[tasks[t].event_id]
               status == tasks[t].native[1]
           IN  /\ stored.event_type = "CallReceived"
                    <=> status \in {"ringing", "queued", "initiated"}
               /\ stored.event_type = "CallCompleted"
                    <=> status \notin {"ringing", "queued", "initiated"}
               /\ stored.payload.call_status = Some(status)
               /\ stored.payload.event_type = stored.event_type
               /\ tasks[t].pc = "done"
                    => /\ tasks[t].result.status = "accepted"
                       /\ tasks[t].result.event_type = stored.event_type

C17_Witness ==
    \E t \in Tasks :
        /\ Stored(tasks[t], "process_twilio_event") /\ tasks[t].pc = "done"
        /\ tasks[t].native = Some("in-progress")
        /\ tasks[t].result.event_type = "CallCompleted"
        /\ events[tasks[t].event_id].event_type = "CallCompleted"

\* the six recognised Cal.com triggers and their types
CalcomTable ==
    [BOOKING_CREATED |-> "CalcomBookingCreated",
     BOOKING_RESCHEDULED |-> "CalcomBookingRescheduled",
     BOOKING_CANCELLED |-> "CalcomBookingCancelled",
     BOOKING_CONFIRMED |-> "CalcomBookingConfirmed",
     MEETING_ENDED |-> "CalcomMeetingEnded",
     MEETING_STARTED |-> "CalcomMeetingStarted"]

\* C18: process_calcom_event stores and returns, for each of the six
\* recognised triggers, its own Calcom* type, and CalcomEvent for any other
\* trigger; the trigger is kept as event_subtype.
C18_CalcomMapping ==
    /\ \A a, b \in DOMAIN CalcomTable : a # b => CalcomTable[a] # CalcomTable[b]
    /\ \A t \in Tasks :
         Stored(tasks[t], "process_calcom_event")
         => LET stored == events[tasks[t].event_id]
                trigger == tasks[t].native[1]
            IN  /\ trigger \in DOMAIN CalcomTable
                     => stored.event_type = CalcomTable[trigger]
                /\ trigger \notin DOMAIN CalcomTable
                     => stored.event_type = "CalcomEvent"
                /\ stored.payload.event_subtype = Some(trigger)
                /\ stored.payload.event_type = stored.event_type
                /\ tasks[t].pc = "done"
                     => tasks[t].result.event_type = stored.event_type

C18_Witness ==
    \E t1, t2 \in Tasks :
        /\ Stored(tasks[t1], "process_calcom_event") /\ tasks[t1].pc = "done"
        /\ tasks[t1].native = Some("MEETING_STARTED")
        /\ tasks[t1].result.event_type = "CalcomMeetingStarted"
        /\ Stored(tasks[t2], "process_calcom_event") /\ tasks[t2].pc = "done"
        /\ tasks[t2].native = Some("BOOKING_PAID")
        /\ tasks[t2].result.event_type = "CalcomEvent"
        /\ events[tasks[t2].event_id].payload.event_subtype = Some("BOOKING_PAID")

\* C19: process_elevenlabs_event stores and returns ElevenLabsCallCompleted
\* exactly for call.ended, post_call_transcription and call.analysis_complete,
\* ElevenLabsEvent for every other event_type, and its result echoes the
\* request's conversation_id.
C19_ElevenLabsMapping ==
    \A t \in Tasks :
        Stored(tasks[t], "process_elevenlabs_event")
        => LET stored == events[tasks[t].event_id]
               native == tasks[t].native[1]
               completed == {"call.ended", "post_call_transcription",
                             "call.analysis_complete"}
           IN  /\ stored.event_type = "ElevenLabsCallCompleted" <=> native \in completed
               /\ stored.event_type = "ElevenLabsEvent" <=> native \notin completed
               /\ stored.payload.event_subtype = Some(native)
               /\ stored.payload.conversation_id = tasks[t].conversation_id
               /\ tasks[t].pc = "done"
                    => /\ tasks[t].result.event_type = stored.event_type
                       /\ tasks[t].result.conversation_id = tasks[t].conversation_id

C19_Witness ==
    \E t \in Tasks :
        /\ Stored(tasks[t], "process_elevenlabs_event") /\ tasks[t].pc = "done"
        /\ tasks[t].native = Some("post_call_transcription")
        /\ tasks[t].conversation_id = Some("conv-1")
        /\ tasks[t].result.conversation_id = Some("conv-1")
        /\ tasks[t].result.event_type = "ElevenLabsCallCompleted"

(***************************************************************************)
(* ElevenLabs webhooks, continued (SpecWebhook)                            *)
(***************************************************************************)
InitiationFields == json_loads(hook.raw_body).value.fields

\* none of the keys carries a phone: absent, null or empty
NoPhoneUnder(keys) ==
    \A key \in keys : ~PyTruthy(Get(InitiationFields, key, JNull))

NoPhoneResponse ==
    /\ Responded
    /\ ~hook.lookup_invoked
    /\ hook.response.status_code = 200
    /\ hook.response.dynamic_variables = DefaultVariables
    /\ hook.response.dynamic_variables.phone = JStr("")
    /\ hook.response.dynamic_variables.first_name = JStr("there")

\* C20 as stated: an accepted conversation-initiation request in which none
\* of number, caller_id, phone_number, from carries a phone is answered with
\* the default variables (phone "", first_name "there") and calls no lookup.
C20_NoAliasPhoneNoLookup ==
    (hook.pc # "idle" /\ InitiationAccepted
       /\ NoPhoneUnder({"number", "caller_id", "phone_number", "from"}))
    => NoPhoneResponse

\* C20, amended: the same for a request in which none of number, caller_id,
\* phone_number, from and from_number carries a phone.
C20_NoPhoneNoLookup ==
    (hook.pc # "idle" /\ InitiationAccepted
       /\ NoPhoneUnder({"number", "caller_id", "phone_number", "from",
                        "from_number"}))
    => NoPhoneResponse

\* a lookup is registered, the body holds only an empty number
C20_Witness ==
    /\ Responded /\ InitiationAccepted
    /\ hook.lead_lookup_fn = "fn"
    /\ hook.raw_body = Obj([number |-> JStr("")])
    /\ ~hook.lookup_invoked
    /\ hook.response.dynamic_variables.phone = JStr("")

\* the human_transfer of the post-call request in hook
HumanTransfer ==
    Get(json_loads(hook.raw_body).value.fields, "human_transfer", JNull)

\* C23: for every accepted post-call request transfer_failure is true exactly
\* when human_transfer is the string "failure", and that boolean is both the
\* response's transfer_failure_flagged and the transfer_failure of the
\* record built for the post-call handler.
C23_TransferFailureFlagged ==
    (Responded /\ PostCallAccepted)
    => /\ hook.response.transfer_failure_flagged = (HumanTransfer = JStr("failure"))
       /\ hook.lead_update.transfer_failure = (HumanTransfer = JStr("failure"))
       /\ hook.lead_update.human_transfer = HumanTransfer

\* C24: post-call submissions are not deduplicated: with a handler
\* registered, every accepted post-call request, whatever its
\* conversation_id, calls the handler once with the record of that request.
C24_EachAcceptedInvokesHandler ==
    [][(/\ hook.pc = "idle" /\ hook'.endpoint = "post-call"
        /\ hook.post_call_handler_fn = "fn"
        /\ PostCallAccepted')
       => /\ hook'.pc = "awaiting_handler"
          /\ hook'.handler_invoked
          /\ hook'.lead_update.conversation_id
               = json_loads(hook'.raw_body).value.fields["conversation_id"]]_vars

\* C26: map_lead_to_variables sets previous_contact to "yes" exactly when the
\* record's Lead_Status is present, not null and none of "new", "New", "",
\* and to "no" otherwise; so previous_contact "yes" never comes with
\* lead_status "new".
C26_PreviousContact ==
    (/\ Responded /\ InitiationAccepted
     /\ hook.lookup_outcome.kind = "dict"
     /\ DOMAIN hook.lookup_outcome.lead # {}
     /\ map_lead_to_variables(hook.lookup_outcome.lead, hook.phone).err = "")
    => LET status == Get(hook.lookup_outcome.lead, "Lead_Status", JNull)
           returned == hook.response.dynamic_variables
           previous == /\ status # JNull
                       /\ status \notin {JStr("new"), JStr("New"), JStr("")}
       IN  /\ returned.previous_contact = IF previous THEN JStr("yes") ELSE JStr("no")
           /\ ~(returned.previous_contact = JStr("yes")
                  /\ returned.lead_status = JStr("new"))

(***************************************************************************)
(* Identity resolution, calls made one at a time (SpecInTurn)              *)
(***************************************************************************)
StoredIdentities == {leads[i].ohid : i \in 1..Len(leads)}

\* the step in which a task's resolve_ohid returns
Resolves(t) ==
    tasks[t].pc = "resolve_ohid" /\ tasks'[t].pc = "insert_lead_context"

\* C21: resolve_ohid for a lead with email and phone both absent finds no
\* stored identity, whatever the store holds: it returns a newly drawn uuid4
\* that no stored lead record or event carries, and the store is unchanged.
C21_AbsentContactMintsFresh ==
    [][\A t \in Tasks :
         (Resolves(t) /\ tasks[t].email = None /\ tasks[t].phone = None)
         => /\ tasks'[t].ohid[1] = "uuid4"
            /\ tasks'[t].ohid \notin StoredIdentities
            /\ \A k \in DOMAIN events : events[k].ohid # tasks'[t].ohid
            /\ history'[tasks'[t].event_id].miss
            /\ UNCHANGED <<leads, events, inserted>>]_vars

\* two leads without email and phone are stored under identities of their own,
\* next to a lead that has no phone either
C21_Witness ==
    \E i, j, k \in 1..Len(leads) :
        /\ i # j
        /\ leads[i].lead.person = [email |-> None, phone |-> None]
        /\ leads[j].lead.person = [email |-> None, phone |-> None]
        /\ leads[k].lead.person = [email |-> Some("a@x.com"), phone |-> None]
        /\ Cardinality({leads[i].ohid, leads[j].ohid, leads[k].ohid}) = 3

\* the two persons have no non-empty email and no non-empty phone in common
SharesNoField(p1, p2) ==
    /\ ~(Truthy(p1.email) /\ p1.email = p2.email)
    /\ ~(Truthy(p1.phone) /\ p1.phone = p2.phone)

\* no stored lead record is changed or removed by the step
LeadsKept ==
    /\ Len(leads') >= Len(leads)
    /\ \A i \in 1..Len(leads) : leads'[i] = leads[i]

\* C22 as stated: two leads ingested one after the other that share no
\* contact field carry distinct identities, and no step merges or rewrites
\* stored lead records.
C22_NoSharedFieldDistinct ==
    [][/\ \A i, j \in 1..Len(leads') :
            (i < j /\ SharesNoField(leads'[i].lead.person, leads'[j].lead.person))
            => leads'[i].ohid # leads'[j].ohid
       /\ LeadsKept]_vars

\* C22, amended: a lead whose contact fields match no lead record stored
\* before it carries an identity distinct from all of theirs (two leads that
\* share no field may still both match a third record and take its
\* identity), and no step merges or rewrites stored lead records.
C22_UnmatchedLeadDistinct ==
    [][/\ \A j \in 1..Len(leads') :
            (\A k \in 1..(j - 1) :
                ~RecordMatches(leads'[k], leads'[j].lead.person.email,
                               leads'[j].lead.person.phone))
            => \A i \in 1..(j - 1) : leads'[i].ohid # leads'[j].ohid
       /\ LeadsKept]_vars

\* a@x.com alone, then +1000 alone, then a lead with both: the first two keep
\* their distinct identities, the third has taken the first one's
C22_Witness ==
    /\ Len(leads) = 3
    /\ leads[1].lead.person = [email |-> Some("a@x.com"), phone |-> None]
    /\ leads[2].lead.person = [email |-> None, phone |-> Some("+1000")]
    /\ leads[3].lead.person = [email |-> Some("a@x.com"), phone |-> Some("+1000")]
    /\ leads[1].ohid # leads[2].ohid
    /\ leads[3].ohid = leads[1].ohid

\* C27: after ingest_lead calls made one at a time, any two stored lead
\* records with the same non-empty email, or the same non-empty phone, carry
\* the same identity.
C27_SharedFieldSameIdentity ==
    \A i, j \in 1..Len(leads) :
        ~SharesNoField(leads[i].lead.person, leads[j].lead.person)
        => leads[i].ohid = leads[j].ohid

(***************************************************************************)
(* Lead records and their events (Spec)                                    *)
(***************************************************************************)
\* C28: once an ingest_lead call has returned or failed, every lead record
\* it stored under its ingest id has a LeadIngested event with that id and
\* the same identity, also when insert_workflow_event failed.
C28_LeadHasIngestedEvent ==
    \A t \in Tasks :
        (tasks[t].tool = "ingest_lead" /\ tasks[t].pc \in {"done", "raised"})
        => \A i \in 1..Len(leads) :
              leads[i].ingest_id = tasks[t].event_id
              => /\ leads[i].ingest_id \in DOMAIN events
                 /\ events[leads[i].ingest_id].event_type = "LeadIngested"
                 /\ events[leads[i].ingest_id].ohid = leads[i].ohid

\* C29: every stored workflow event with a non-null identity carries the
\* identity of at least one stored lead record.
C29_EventIdentityStored ==
    \A k \in DOMAIN events :
        events[k].ohid # None => events[k].ohid \in StoredIdentities

\* a booking event carries the identity of a lead ingested before it, next to
\* that lead's own LeadIngested event
C29_Witness ==
    \E k1, k2 \in DOMAIN events :
        /\ events[k1].source_system = "CALCOM"
        /\ events[k1].ohid # None
        /\ events[k2].event_type = "LeadIngested"
        /\ events[k2].ohid = events[k1].ohid
        /\ events[k1].ohid \in StoredIdentities

(***************************************************************************)
(* verify_webhook_signature (SpecSignature)                                *)
(***************************************************************************)
SigCallEnded == sigcall.pc \in {"returned", "raised"}

\* C25: verify_webhook_signature returns valid = false for every body and
\* every signature when the selected source's secret is the empty string,
\* and valid = false with an error for an unknown source.
C25_EmptySecretNeverValid ==
    (SigCallEnded /\ sigcall.body_hex.ok)
    => /\ (sigcall.source \in SignatureSources /\ sigcall.env[sigcall.source] = "")
            => /\ sigcall.pc = "returned"
               /\ ~sigcall.result.valid
       /\ sigcall.source \notin SignatureSources
            => /\ sigcall.pc = "returned"
               /\ ~sigcall.result.valid
               /\ sigcall.result.error # ""

(***************************************************************************)
(* ZohoTokenManager (SpecZoho)                                             *)
(***************************************************************************)
RefreshesInFlight == {c \in Callers : zoho.callers[c].pc = "posting"}

\* a caller that waited for the lock while a refresh ran that succeeded (the
\* token of the response was stored and its expiry computed)
WaitedForRefresh(caller) == caller.waited /\ caller.handed.ok

\* C30 as stated: concurrent get_access_token calls never have two refresh
\* posts in flight, and after a successful refresh every caller that waited
\* for the lock returns the refreshed token and sends no refresh of its own.
C30_WaitersNeverRefresh ==
    /\ Cardinality(RefreshesInFlight) <= 1
    /\ \A c \in Callers :
         WaitedForRefresh(zoho.callers[c])
         => /\ zoho.callers[c].refreshes = 0
            /\ zoho.callers[c].pc = "done"
                 => zoho.callers[c].result = zoho.callers[c].handed.token

\* C30, amended: the same when the refreshed token is not the empty string
\* and its expires_in is larger than the 300-second refresh buffer.
C30_WaitersReuseLastingToken ==
    /\ Cardinality(RefreshesInFlight) <= 1
    /\ \A c \in Callers :
         ( /\ WaitedForRefresh(zoho.callers[c])
           /\ zoho.callers[c].handed.token # 0
           /\ zoho.callers[c].handed.expires_in > RefreshBufferSeconds )
         => /\ zoho.callers[c].refreshes = 0
            /\ zoho.callers[c].pc = "done"
                 => zoho.callers[c].result = zoho.callers[c].handed.token

\* one caller refreshed, two waited and both returned its token
C30_Witness ==
    \E c0, c1, c2 \in Callers :
        /\ c1 # c2
        /\ zoho.callers[c0].pc = "done" /\ zoho.callers[c0].refreshes = 1
        /\ zoho.callers[c0].result = zoho.access_token
        /\ zoho.access_token # 0
        /\ \A c \in {c1, c2} :
             /\ zoho.callers[c].pc = "done"
             /\ WaitedForRefresh(zoho.callers[c])
             /\ zoho.callers[c].refreshes = 0
             /\ zoho.callers[c].result = zoho.callers[c0].result

============================================================================
